---- MODULE Spec2Model ----
(***************************************************************************)
(* Coordination layer of the video-monitoring dispatch service:            *)
(*   - RedisCoordinator.distributed_lock   (backend/redis_coordinator.py)  *)
(*   - StreamManager and the viewer reference counter                      *)
(*                                          (backend/streaming_server.py)  *)
(*   - operator dispatch and the stream monitor         (backend/main.py)  *)
(* Several gunicorn workers (separate OS processes) share one Redis, one   *)
(* relational database and one filesystem.  Time is the wall clock in      *)
(* whole seconds, as read by int(time.time()) and by Redis for its TTLs.   *)
(***************************************************************************)
EXTENDS Integers, Sequences, FiniteSets, TLC

\* ------------------------------------------------------------------ bounds
Workers == {1, 2}
TaskNames == {1, 2}
Accounts == {1, 2}
Cameras == {1, 2}
ViewedCameras == {1}
LockMaxTime == 20
LockTickSteps == {5}
MaxPid == 3
ViewerIds == {1, 2}
RegularOps == {1, 2}
EscalateOps == {3, 4, 5}
DispatchTimes == {0, 10, 1800, 1810}
AssignTimes == {0, 10, 1800}
ClaimTimes == {0, 1800}
AssignMaxCalls == 2
MaxCounter == 4
MaxCalls == 4
ViewerTickSteps == {30}
ViewerMaxTime == 60
RegistrationMaxTime == 600
MaxUrlLen == 3
MonitorTickSteps == {30}
MonitorMaxTime == 30

\* ------------------------------------------------------- program constants
VIEWERS_TTL == 300
GRACE_PERIOD == 30
STOP_AT_TTL == 60
HEALTHY_MAX_AGE == 10
FIRST_SEGMENT_GRACE == 30
STALE_PLAYLIST_AGE == 15
MonitorTask == 1
CLAIM_TTL == 1800
CLAIM_MIRROR_TTL == 1800
LOCK_TIMEOUT == 10
BLOCKING_TIMEOUT == 5
STREAM_ACTIVE_TTL == 60

\* A caller is an asyncio task of one worker.  asyncio names the tasks of a
\* process Task-1, Task-2, ...: the name is unique inside a worker only.
Procs == Workers \X TaskNames
WorkerOf(p) == p[1]
TaskNameOf(p) == p[2]

LockKeys == {<<kind, a>> : kind \in {"assign_event", "assign_escalate"}, a \in Accounts}
NoEntry == [val |-> 0, exp |-> 0]
NoKey == <<"none", 0>>
Pids == 1..MaxPid
Operators == RegularOps \cup EscalateOps
CounterKeys == {"assignment_counter", "escalate_assignment_counter"}
NoPid == 0
NoTime == -1
NoProc == <<0, 0>>
DeadProc == <<0, 1>>
StoreStates == {"up", "unset", "failing"}

\* RTSP URLs as urlparse splits them: the scheme, whether a host is present,
\* and whether the base or the query holds a shell metacharacter.  The empty
\* string has neither scheme nor host.
NoUrl == [scheme |-> "", netloc |-> FALSE, meta |-> FALSE]
CameraUrl == [scheme |-> "rtsp", netloc |-> TRUE, meta |-> FALSE]
Urls == {CameraUrl, NoUrl,
         [scheme |-> "file", netloc |-> TRUE, meta |-> FALSE],
         [scheme |-> "rtsp", netloc |-> FALSE, meta |-> FALSE],
         [scheme |-> "rtsp", netloc |-> TRUE, meta |-> TRUE]}

VARIABLES
  now,        \* the clock, seconds
  locks,      \* Redis: lock key -> [val: task name, exp: expiry time] or NoEntry
  pc,         \* per caller: where it stands
  fn,         \* per caller: the function it runs
  lockKey,    \* per caller: lock_key of its distributed_lock scope
  startTime,  \* per caller: start_time of its acquisition loop
  acquired,   \* per caller: the local variable `acquired`
  stack,      \* per caller: where to continue after the call in progress returns
  ret,        \* per caller: the value the last call returned
  camera_id,  \* per caller: the camera_id argument
  process,    \* per caller: the local variable `process` (a pid)
  preHandle,  \* per caller: the live handle the worker held when start was called
  rtsp_url,   \* per caller: the rtsp_url argument of start_stream
  active_streams,      \* per worker: camera -> pid of its Popen handle, or NoPid
  stream_last_update,  \* per worker: camera -> start time, or NoTime
  nextPid,             \* the operating system's next process id
  procAlive,           \* the encoder processes that are running
  procCam,             \* pid -> camera directory it runs in (its cwd)
  procWorker,          \* pid -> worker that spawned it
  playlistMtime,       \* camera -> mtime of playlist.m3u8, or NoTime when absent
  segmentMtime,        \* camera -> mtime of the newest segment_*.ts, or NoTime
  streamActive,        \* Redis: camera -> expiry of stream_active:{camera}, 0 absent
  pendingDelete,       \* per worker: cameras whose marker delete task is scheduled
  viewers,             \* Redis: camera -> fields of the hash stream_viewers:{camera}
  viewersExp,          \* Redis: camera -> expiry of that hash, 0 when it has no TTL
  stopAt,              \* Redis: camera -> [val, exp] of stream_stop_at:{camera}
  viewer_id,           \* per caller: the viewer_id argument
  viewer_count,        \* per caller: the handler's local viewer_count
  stopAtRead,          \* per caller: stop_at_str as should_stop_stream read it
  shouldStop,          \* per caller: what should_stop_stream returned
  hdelRemoved,         \* history, per caller: its hdel removed a field
  monTodo,             \* per caller: cameras of all_stats the monitor has yet to visit
  all_stats,           \* per caller: the monitor's all_stats, camera -> stats class
  cpu_percent,         \* per caller: stats.get("cpu_percent") of the camera at hand
  memory_mb,           \* per caller: stats.get("memory_mb") of the camera at hand
  removedAt,           \* history: camera -> time a remove that took its viewer out left it empty
  claims,              \* database: the AccountClaim rows [account, user, exp]
  counter,             \* Redis: the two round-robin counters
  claimMirror,         \* Redis: account -> [val, exp] of claim:{account}
  receiving,           \* database: users whose is_receiving flag is set
  escalated,           \* database: accounts that have an event with status "escalated"
  account_id,          \* per caller: the account_id argument
  available,           \* per caller: available_users
  selected_user,       \* per caller: selected_user.id
  assigned,            \* per caller: the user id the call returns
  rejected,            \* history: accounts for which an insert hit the unique constraint
  history,             \* history: the last escalate-pool increments [account, user, n]
  picks,               \* history: user -> selections by the regular pool
  calls,               \* history: number of assign_event_to_operator calls that returned
  deadDropped,         \* history: per worker, cameras whose dead handle its monitor dropped
                       \* and for which no start has been requested since
  store,               \* the coordination store: "up", "unset" (no client) or "failing"
  lockOwner,           \* history: lock key -> the caller whose SET NX wrote the key
  crashExp,            \* history: lock key -> expiry of the key a crashed holder left
  registered           \* history: per worker, camera -> viewers registered through it
                       \* while the store could not be reached

lockVars == <<locks, lockKey, startTime, acquired, lockOwner, crashExp>>
callVars == <<pc, fn, stack, ret>>
streamLocals == <<camera_id, process, preHandle, rtsp_url>>
procVars == <<nextPid, procAlive, procCam, procWorker>>
fileVars == <<playlistMtime, segmentMtime>>
streamVars == <<active_streams, stream_last_update, procVars, fileVars, streamActive, pendingDelete>>
dispatchStore == <<claims, counter, claimMirror, receiving, escalated>>
dispatchLocals == <<account_id, available, selected_user, assigned>>
dispatchHistory == <<rejected, history, picks, calls, deadDropped>>
dispatchVars == <<dispatchStore, dispatchLocals, dispatchHistory>>
viewerStore == <<viewers, viewersExp, stopAt>>
viewerLocals == <<viewer_id, viewer_count, stopAtRead, shouldStop, hdelRemoved>>
monLocals == <<monTodo, all_stats, cpu_percent, memory_mb>>
viewerVars == <<viewerStore, viewerLocals, monLocals, removedAt, registered>>
vars == <<now, store, lockVars, callVars, streamLocals, streamVars, viewerVars, dispatchVars>>

\* ------------------------------------------------------------ Redis store
\* A store whose keys outlive their TTL.
NeverExpires(kv, t) == kv

\* A key whose TTL has run out is gone: Redis drops it when time passes.
Purge(kv, t) == [k \in DOMAIN kv |-> IF kv[k] # NoEntry /\ kv[k].exp <= t THEN NoEntry ELSE kv[k]]

\* SET key value EX ttl NX: succeeds only when the key is absent.
SetNXOk(kv, k) == kv[k] = NoEntry
SetNX(kv, k, v, ttl, t) == IF SetNXOk(kv, k) THEN [kv EXCEPT ![k] = [val |-> v, exp |-> t + ttl]] ELSE kv

\* The release script: delete the key only if it still holds ARGV[1].
ReleaseScript(kv, k, v) == IF kv[k] # NoEntry /\ kv[k].val = v THEN [kv EXCEPT ![k] = NoEntry] ELSE kv

\* ------------------------------------------------------- distributed_lock
\* lock_value = asyncio.current_task().get_name()
LockValue(p) == TaskNameOf(p)

\* Entering `async with distributed_lock(key)`: start_time is taken.
LockEnter(p, f, k) ==
  /\ pc[p] = "idle"
  /\ pc' = [pc EXCEPT ![p] = "acquire"]
  /\ fn' = [fn EXCEPT ![p] = f]
  /\ lockKey' = [lockKey EXCEPT ![p] = k]
  /\ startTime' = [startTime EXCEPT ![p] = now]
  /\ acquired' = [acquired EXCEPT ![p] = FALSE]
  /\ account_id' = [account_id EXCEPT ![p] = k[2]]
  /\ UNCHANGED <<now, store, locks, lockOwner, crashExp, stack, ret, streamLocals, streamVars,
                 viewerVars, dispatchStore, available, selected_user, assigned,
                 dispatchHistory>>

\* One pass of the acquisition loop that leaves it: the SET NX succeeded
\* (yield True), or it failed and blocking_timeout has elapsed (yield False).
\* A failed pass before the timeout sleeps 0.1 s and changes nothing.
\* Without a client (`if not self.redis`) the scope yields False at once.  A
\* client whose SET raises lets the exception leave the context manager:
\* the scoped body never runs and the caller of the scope gets the exception.
LockTry(p) ==
  /\ pc[p] = "acquire"
  /\ \/ /\ store = "up"
        /\ SetNXOk(locks, lockKey[p])
        /\ locks' = SetNX(locks, lockKey[p], LockValue(p), LOCK_TIMEOUT, now)
        /\ lockOwner' = [lockOwner EXCEPT ![lockKey[p]] = p]
        /\ acquired' = [acquired EXCEPT ![p] = TRUE]
        /\ pc' = [pc EXCEPT ![p] = "body"]
        /\ UNCHANGED <<ret, lockKey, account_id>>
     \/ /\ store = "up"
        /\ ~SetNXOk(locks, lockKey[p])
        /\ now - startTime[p] >= BLOCKING_TIMEOUT
        /\ pc' = [pc EXCEPT ![p] = "body"]
        /\ UNCHANGED <<locks, lockOwner, acquired, ret, lockKey, account_id>>
     \/ /\ store = "unset"
        /\ pc' = [pc EXCEPT ![p] = "body"]
        /\ UNCHANGED <<locks, lockOwner, acquired, ret, lockKey, account_id>>
     \/ /\ store = "failing"
        /\ ret' = [ret EXCEPT ![p] = "raised"]
        /\ pc' = [pc EXCEPT ![p] = "done"]
        /\ lockKey' = [lockKey EXCEPT ![p] = NoKey]
        /\ UNCHANGED <<locks, lockOwner, acquired, account_id>>
  /\ startTime' = [startTime EXCEPT ![p] = 0]
  /\ UNCHANGED <<now, store, fn, crashExp, stack, streamLocals, streamVars, viewerVars,
                 dispatchStore, available, selected_user, assigned, dispatchHistory>>

\* The scope's finally block: release only if acquired, by the script (an
\* eval that raises is logged and the key is left to its TTL).  An
\* assign call then returns to its caller; the `pass` scope is simply over.
LockExit(p) ==
  /\ pc[p] = "exit" \/ (pc[p] = "body" /\ fn[p] = "lock_only")
  /\ locks' = IF acquired[p] /\ store = "up"
                THEN ReleaseScript(locks, lockKey[p], LockValue(p))
                ELSE locks
  /\ lockOwner' = [k \in LockKeys |-> IF locks'[k] = NoEntry THEN NoProc ELSE lockOwner[k]]
  /\ pc' = [pc EXCEPT ![p] = IF fn[p] = "lock_only" THEN "idle" ELSE "done"]
  /\ fn' = [fn EXCEPT ![p] = IF fn[p] = "lock_only" THEN "none" ELSE @]
  /\ lockKey' = [lockKey EXCEPT ![p] = NoKey]
  /\ account_id' = [account_id EXCEPT ![p] = IF fn[p] = "lock_only" THEN 0 ELSE @]
  /\ startTime' = [startTime EXCEPT ![p] = 0]
  /\ acquired' = [acquired EXCEPT ![p] = FALSE]
  /\ UNCHANGED <<now, store, crashExp, stack, ret, streamLocals, streamVars, viewerVars,
                 dispatchStore, available, selected_user, assigned, dispatchHistory>>

\* A caller whose scoped body is the docstring's `pass`: it stays in the
\* scope until LockExit.
LockOnlyCall(p, k) == LockEnter(p, "lock_only", k)

\* The writers of the keys that are still there at time t.
PurgeOwners(t) ==
  [k \in LockKeys |-> IF locks[k] # NoEntry /\ locks[k].exp <= t THEN NoProc ELSE lockOwner[k]]

\* Time passes; Redis expires what is due.
TickLock ==
  /\ \E d \in LockTickSteps :
       /\ now + d <= LockMaxTime
       /\ now' = now + d
       /\ locks' = Purge(locks, now + d)
       /\ lockOwner' = PurgeOwners(now + d)
  /\ UNCHANGED <<store, lockKey, startTime, acquired, crashExp, callVars, streamLocals,
                 streamVars, viewerVars, dispatchVars>>

\* ------------------------------------------------------ call bookkeeping
\* A call returns to the label its caller left on the stack.
Pop(p) ==
  /\ pc' = [pc EXCEPT ![p] = Head(stack[p])]
  /\ stack' = [stack EXCEPT ![p] = Tail(stack[p])]

\* The handler is over: its task slot is free again.
Return(p) ==
  /\ pc[p] = "done"
  /\ pc' = [pc EXCEPT ![p] = "idle"]
  /\ fn' = [fn EXCEPT ![p] = "none"]
  /\ ret' = [ret EXCEPT ![p] = "none"]
  /\ camera_id' = [camera_id EXCEPT ![p] = 0]
  /\ process' = [process EXCEPT ![p] = NoPid]
  /\ preHandle' = [preHandle EXCEPT ![p] = NoPid]
  /\ rtsp_url' = [rtsp_url EXCEPT ![p] = NoUrl]
  /\ viewer_id' = [viewer_id EXCEPT ![p] = 0]
  /\ viewer_count' = [viewer_count EXCEPT ![p] = 0]
  /\ stopAtRead' = [stopAtRead EXCEPT ![p] = 0]
  /\ shouldStop' = [shouldStop EXCEPT ![p] = FALSE]
  /\ hdelRemoved' = [hdelRemoved EXCEPT ![p] = FALSE]
  /\ monTodo' = [monTodo EXCEPT ![p] = {}]
  /\ all_stats' = [all_stats EXCEPT ![p] = [c \in Cameras |-> "absent"]]
  /\ cpu_percent' = [cpu_percent EXCEPT ![p] = 0]
  /\ memory_mb' = [memory_mb EXCEPT ![p] = 0]
  /\ account_id' = [account_id EXCEPT ![p] = 0]
  /\ available' = [available EXCEPT ![p] = <<>>]
  /\ selected_user' = [selected_user EXCEPT ![p] = 0]
  /\ assigned' = [assigned EXCEPT ![p] = 0]
  /\ calls' = IF fn[p] = "assign_event_to_operator" THEN calls + 1 ELSE calls
  /\ UNCHANGED <<now, store, lockVars, stack, streamVars, viewerStore, removedAt, registered,
                 dispatchStore, rejected, history, picks, deadDropped>>

\* All callers are between calls.
AllIdle == \A p \in Procs : pc[p] = "idle"

\* ---------------------------------------------------------- StreamManager
\* The encoder processes of camera c that worker w spawned and that run.
LiveEncoders(w, c) == {i \in procAlive : procCam[i] = c /\ procWorker[i] = w}

\* `camera_id in self.active_streams` with a process whose poll() is None.
LiveHandle(w, c) == active_streams[w][c] # NoPid /\ active_streams[w][c] \in procAlive

\* _cleanup_stream_files: every *.ts, the playlist and *.tmp are unlinked.
CleanedPlaylist(c) == [playlistMtime EXCEPT ![c] = NoTime]
CleanedSegments(c) == [segmentMtime EXCEPT ![c] = NoTime]

\* A stop that never looks for the handle.
HandleAssumed(w, c) == TRUE

\* `camera_id in self.active_streams`
HasHandle(w, c) == active_streams[w][c] # NoPid

\* stop_stream, first half: the handle is looked up; if there is one its
\* process is terminated and waited for (killed after 5 s).  Without a
\* handle stop_stream returns False and touches nothing.
StopStreamTerminate(p) ==
  LET w == WorkerOf(p)
      c == camera_id[p]
      h == active_streams[w][c]
  IN /\ pc[p] = "stop_terminate"
     /\ IF HasHandle(w, c)
          THEN /\ procAlive' = procAlive \ {h}
               /\ process' = [process EXCEPT ![p] = h]
               /\ pc' = [pc EXCEPT ![p] = "stop_delete"]
               /\ UNCHANGED <<stack, ret>>
          ELSE /\ ret' = [ret EXCEPT ![p] = "False"]
               /\ Pop(p)
               /\ UNCHANGED <<procAlive, process>>
     /\ UNCHANGED <<now, store, lockVars, fn, camera_id, preHandle, rtsp_url, active_streams,
                    stream_last_update, nextPid, procCam, procWorker, fileVars,
                    streamActive, pendingDelete, viewerVars, dispatchVars>>

\* The marker delete that stop_stream and start_stream hand to
\* asyncio.create_task: scheduled when the caller runs on the event loop
\* (the monitor calls StreamManager directly); in an executor thread
\* create_task raises RuntimeError, which the bare except swallows.
InExecutor(p) == \E i \in 1..Len(stack[p]) : stack[p][i] = "scs_unregister"
OnEventLoop(p) == fn[p] = "stream_monitor_task" /\ ~InExecutor(p)
ScheduledDelete(p, c) ==
  IF OnEventLoop(p)
    THEN [pendingDelete EXCEPT ![WorkerOf(p)] = @ \cup {c}]
    ELSE pendingDelete

\* stop_stream, second half: `del self.active_streams[camera_id]` (a KeyError
\* when another thread removed the entry meanwhile: caught, returns False),
\* stream_last_update dropped, the marker delete scheduled, files cleaned.
StopStreamDelete(p) ==
  LET w == WorkerOf(p)
      c == camera_id[p]
  IN /\ pc[p] = "stop_delete"
     /\ IF active_streams[w][c] # NoPid
          THEN /\ active_streams' = [active_streams EXCEPT ![w][c] = NoPid]
               /\ stream_last_update' = [stream_last_update EXCEPT ![w][c] = NoTime]
               /\ pendingDelete' = ScheduledDelete(p, c)
               /\ playlistMtime' = CleanedPlaylist(c)
               /\ segmentMtime' = CleanedSegments(c)
               /\ ret' = [ret EXCEPT ![p] = "True"]
               /\ deadDropped' = IF fn[p] = "stream_monitor_task" /\ all_stats[p][c] = "ended"
                                      /\ active_streams[w][c] \notin procAlive
                                   THEN [deadDropped EXCEPT ![w] = @ \cup {c}]
                                   ELSE deadDropped
          ELSE /\ ret' = [ret EXCEPT ![p] = "False"]
               /\ UNCHANGED <<active_streams, stream_last_update, pendingDelete, fileVars, deadDropped>>
     /\ Pop(p)
     /\ UNCHANGED <<now, store, lockVars, fn, streamLocals, procVars, streamActive, viewerVars,
                    dispatchStore, dispatchLocals, rejected, history, picks, calls>>

\* _cleanup_orphaned_ffmpeg: every ffmpeg process whose cwd is the camera's
\* directory is killed, whichever worker spawned it.
OrphansOfCamera(c) == {i \in procAlive : procCam[i] = c}
StartStreamOrphans(p) ==
  /\ pc[p] = "ss_orphans"
  /\ procAlive' = procAlive \ OrphansOfCamera(camera_id[p])
  /\ pc' = [pc EXCEPT ![p] = "ss_spawn"]
  /\ UNCHANGED <<now, store, lockVars, fn, stack, ret, streamLocals, active_streams,
                 stream_last_update, nextPid, procCam, procWorker, fileVars,
                 streamActive, pendingDelete, viewerVars, dispatchVars>>

\* subprocess.Popen(cmd, cwd=camera_dir); the handle and the start time are
\* recorded.
StartStreamSpawn(p) ==
  LET w == WorkerOf(p)
      c == camera_id[p]
  IN /\ pc[p] = "ss_spawn"
     /\ nextPid <= MaxPid
     /\ procAlive' = procAlive \cup {nextPid}
     /\ procCam' = [procCam EXCEPT ![nextPid] = c]
     /\ procWorker' = [procWorker EXCEPT ![nextPid] = w]
     /\ nextPid' = nextPid + 1
     /\ active_streams' = [active_streams EXCEPT ![w][c] = nextPid]
     /\ stream_last_update' = [stream_last_update EXCEPT ![w][c] = now]
     /\ process' = [process EXCEPT ![p] = nextPid]
     /\ pc' = [pc EXCEPT ![p] = "ss_poll"]
     /\ UNCHANGED <<now, store, lockVars, fn, stack, ret, camera_id, preHandle, rtsp_url, fileVars,
                    streamActive, pendingDelete, viewerVars, dispatchVars>>

\* After time.sleep(0.5): process.poll().  A process that already ended
\* makes start_stream drop the entry (KeyError if it is gone: the outer
\* except returns False) and return False; otherwise it returns True.
StartStreamPoll(p) ==
  LET w == WorkerOf(p)
      c == camera_id[p]
  IN /\ pc[p] = "ss_poll"
     /\ IF process[p] \in procAlive
          THEN /\ ret' = [ret EXCEPT ![p] = "True"]
               /\ UNCHANGED <<active_streams, stream_last_update, pendingDelete>>
          ELSE /\ ret' = [ret EXCEPT ![p] = "False"]
               /\ IF active_streams[w][c] # NoPid
                    THEN /\ active_streams' = [active_streams EXCEPT ![w][c] = NoPid]
                         /\ stream_last_update' = [stream_last_update EXCEPT ![w][c] = NoTime]
                         /\ pendingDelete' = ScheduledDelete(p, c)
                    ELSE UNCHANGED <<active_streams, stream_last_update, pendingDelete>>
     /\ Pop(p)
     /\ UNCHANGED <<now, store, lockVars, fn, streamLocals, procVars, fileVars, streamActive, viewerVars, dispatchVars>>

\* A validation that lets every URL through.
AnyUrl(u) == TRUE

\* validate_rtsp_url returns the cleaned URL unless it raises ValueError: for
\* an empty URL, a scheme other than rtsp, rtmp, http, https, a missing
\* host, or a shell metacharacter in the base or the query.
ValidRtspUrl(u) ==
  /\ u # NoUrl
  /\ u.scheme \in {"rtsp", "rtmp", "http", "https"}
  /\ u.netloc
  /\ ~u.meta

\* start_camera_stream(camera_id, rtsp_url, quality): start_stream runs in an
\* executor thread.  validate_rtsp_url rejects the URL (return False) or
\* start_stream goes on to stop_stream(camera_id).
StartCameraStream(p, c, u) ==
  LET w == WorkerOf(p)
  IN /\ pc[p] = "idle"
     /\ rtsp_url' = [rtsp_url EXCEPT ![p] = u]
     /\ fn' = [fn EXCEPT ![p] = "start_camera_stream"]
     /\ camera_id' = [camera_id EXCEPT ![p] = c]
     /\ preHandle' = [preHandle EXCEPT ![p] = IF LiveHandle(w, c) THEN active_streams[w][c] ELSE NoPid]
     /\ IF ValidRtspUrl(u)
          THEN /\ pc' = [pc EXCEPT ![p] = "stop_terminate"]
               /\ stack' = [stack EXCEPT ![p] = <<"ss_orphans", "scs_register">>]
               /\ UNCHANGED ret
          ELSE /\ pc' = [pc EXCEPT ![p] = "scs_register"]
               /\ ret' = [ret EXCEPT ![p] = "False"]
               /\ UNCHANGED stack
     /\ deadDropped' = [v \in Workers |-> deadDropped[v] \ {c}]
     /\ UNCHANGED <<now, store, lockVars, process, streamVars, viewerVars,
                    dispatchStore, dispatchLocals, rejected, history, picks, calls>>

\* start_camera_stream after the executor returns: on success the marker
\* stream_active:{camera_id} is set for 60 s.
StartCameraStreamRegister(p) ==
  /\ pc[p] = "scs_register"
  /\ streamActive' = IF ret[p] = "True"
                       THEN [streamActive EXCEPT ![camera_id[p]] = now + STREAM_ACTIVE_TTL]
                       ELSE streamActive
  /\ pc' = [pc EXCEPT ![p] = "done"]
  /\ UNCHANGED <<now, store, lockVars, fn, stack, ret, streamLocals, active_streams,
                 stream_last_update, procVars, fileVars, pendingDelete, viewerVars, dispatchVars>>

\* stop_camera_stream(camera_id): stop_stream in an executor thread, then
\* the marker is deleted whatever stop_stream returned.
StopCameraStream(p, c) ==
  /\ pc[p] = "idle"
  /\ fn' = [fn EXCEPT ![p] = "stop_camera_stream"]
  /\ camera_id' = [camera_id EXCEPT ![p] = c]
  /\ pc' = [pc EXCEPT ![p] = "stop_terminate"]
  /\ stack' = [stack EXCEPT ![p] = <<"scs_unregister">>]
  /\ UNCHANGED <<now, store, lockVars, ret, process, preHandle, rtsp_url, streamVars, viewerVars, dispatchVars>>

StopCameraStreamUnregister(p) ==
  /\ pc[p] = "scs_unregister"
  /\ streamActive' = [streamActive EXCEPT ![camera_id[p]] = 0]
  /\ IF stack[p] = <<>>
       THEN pc' = [pc EXCEPT ![p] = "done"] /\ UNCHANGED stack
       ELSE Pop(p)
  /\ UNCHANGED <<now, store, lockVars, fn, ret, streamLocals, active_streams,
                 stream_last_update, procVars, fileVars, pendingDelete, viewerVars, dispatchVars>>

\* The delete task that stop_stream scheduled on the event loop runs.
MarkerDeleteTask(w, c) ==
  /\ c \in pendingDelete[w]
  /\ pendingDelete' = [pendingDelete EXCEPT ![w] = @ \ {c}]
  /\ streamActive' = [streamActive EXCEPT ![c] = 0]
  /\ UNCHANGED <<now, store, lockVars, callVars, streamLocals, active_streams,
                 stream_last_update, procVars, fileVars, viewerVars, dispatchVars>>

\* An encoder process ends by itself (the source is unreachable, it crashes).
EncoderExit(i) ==
  /\ i \in procAlive
  /\ procAlive' = procAlive \ {i}
  /\ UNCHANGED <<now, store, lockVars, callVars, streamLocals, active_streams,
                 stream_last_update, nextPid, procCam, procWorker, fileVars,
                 streamActive, pendingDelete, viewerVars, dispatchVars>>

\* A running encoder writes a segment and rewrites the playlist in its cwd.
EncoderWrite(i) ==
  /\ i \in procAlive
  /\ \/ playlistMtime[procCam[i]] # now
     \/ segmentMtime[procCam[i]] # now
  /\ playlistMtime' = [playlistMtime EXCEPT ![procCam[i]] = now]
  /\ segmentMtime' = [segmentMtime EXCEPT ![procCam[i]] = now]
  /\ UNCHANGED <<now, store, lockVars, callVars, streamLocals, active_streams,
                 stream_last_update, procVars, streamActive, pendingDelete, viewerVars, dispatchVars>>

\* A readiness that only the worker holding the handle reports.
ReadyIfOwned(w, c) == LiveHandle(w, c)

\* StreamManager.is_stream_ready: playlist_path.exists() under streams_dir,
\* which is /mnt/media/streams in every worker.
IsStreamReady(w, c) == playlistMtime[c] # NoTime

\* is_stream_ready(camera_id) runs StreamManager.is_stream_ready in an
\* executor thread and returns its result.
IsStreamReadyCall(p, c) ==
  /\ pc[p] = "idle"
  /\ fn' = [fn EXCEPT ![p] = "is_stream_ready"]
  /\ camera_id' = [camera_id EXCEPT ![p] = c]
  /\ ret' = [ret EXCEPT ![p] = IF IsStreamReady(WorkerOf(p), c) THEN "True" ELSE "False"]
  /\ pc' = [pc EXCEPT ![p] = "done"]
  /\ UNCHANGED <<now, store, lockVars, stack, process, preHandle, rtsp_url, streamVars,
                 viewerVars, dispatchVars>>

\* ------------------------------------------------- viewer reference counter
\* A deadline that grants no grace period.
NoGrace(t) == [val |-> t, exp |-> t + STOP_AT_TTL]

\* setex(stream_stop_at:{camera_id}, 60, int(time.time()) + 30)
StopDeadline(t) == [val |-> t + GRACE_PERIOD, exp |-> t + STOP_AT_TTL]

\* A check that takes every deadline for elapsed.
GraceIgnored(t, stop_at) == TRUE

\* if now >= stop_at
GraceOver(t, stop_at) == t >= stop_at

\* hset(stream_viewers:{camera_id}, viewer_id, int(time.time())).  Without a
\* client, or when a store call raises, add_stream_viewer returns 1.
AddStreamViewer(p, c, v) ==
  /\ pc[p] = "idle"
  /\ fn' = [fn EXCEPT ![p] = "add_stream_viewer"]
  /\ camera_id' = [camera_id EXCEPT ![p] = c]
  /\ viewer_id' = [viewer_id EXCEPT ![p] = v]
  /\ IF store = "up"
       THEN /\ viewers' = [viewers EXCEPT ![c] = @ \cup {v}]
            /\ pc' = [pc EXCEPT ![p] = "add_expire"]
            /\ UNCHANGED <<viewer_count, registered>>
       ELSE /\ viewer_count' = [viewer_count EXCEPT ![p] = 1]
            /\ registered' = [registered EXCEPT ![WorkerOf(p)][c] = @ \cup {v}]
            /\ pc' = [pc EXCEPT ![p] = "done"]
            /\ UNCHANGED viewers
  /\ UNCHANGED <<now, store, lockVars, stack, ret, process, preHandle, rtsp_url, streamVars,
                 viewersExp, stopAt, stopAtRead, shouldStop,
                 hdelRemoved, monLocals, removedAt, dispatchVars>>

\* expire(stream_viewers:{camera_id}, 300): a no-op on a key that is gone.
AddViewerExpire(p) ==
  LET c == camera_id[p]
  IN /\ pc[p] = "add_expire"
     /\ IF store = "up"
          THEN /\ viewersExp' = IF viewers[c] # {}
                                  THEN [viewersExp EXCEPT ![c] = now + VIEWERS_TTL]
                                  ELSE viewersExp
               /\ pc' = [pc EXCEPT ![p] = "add_hlen"]
               /\ UNCHANGED viewer_count
          ELSE /\ viewer_count' = [viewer_count EXCEPT ![p] = 1]
               /\ pc' = [pc EXCEPT ![p] = "done"]
               /\ UNCHANGED viewersExp
     /\ UNCHANGED <<now, store, lockVars, fn, stack, ret, streamLocals, streamVars,
                    viewers, stopAt, viewer_id, stopAtRead, shouldStop, hdelRemoved,
                    monLocals, removedAt, registered, dispatchVars>>

\* viewer_count = hlen(stream_viewers:{camera_id}); return viewer_count
AddViewerCount(p) ==
  /\ pc[p] = "add_hlen"
  /\ viewer_count' = [viewer_count EXCEPT ![p] =
                        IF store = "up" THEN Cardinality(viewers[camera_id[p]]) ELSE 1]
  /\ pc' = [pc EXCEPT ![p] = "done"]
  /\ UNCHANGED <<now, store, lockVars, fn, stack, ret, streamLocals, streamVars,
                 viewerStore, viewer_id, stopAtRead, shouldStop, monLocals, removedAt, registered, hdelRemoved, dispatchVars>>

\* hdel(stream_viewers:{camera_id}, viewer_id): Redis drops a hash with its
\* TTL when its last field goes.
RemoveViewerHdel(p) ==
  LET c == camera_id[p]
      left == viewers[c] \ {viewer_id[p]}
  IN /\ pc[p] = "rm_hdel"
     /\ IF store = "up"
          THEN /\ viewers' = [viewers EXCEPT ![c] = left]
               /\ viewersExp' = IF left = {} THEN [viewersExp EXCEPT ![c] = 0] ELSE viewersExp
               /\ hdelRemoved' = [hdelRemoved EXCEPT ![p] = viewer_id[p] \in viewers[c]]
               /\ pc' = [pc EXCEPT ![p] = "rm_hlen"]
               /\ UNCHANGED <<stack, viewer_count, registered>>
          ELSE /\ viewer_count' = [viewer_count EXCEPT ![p] = 0]
               /\ registered' = [registered EXCEPT ![WorkerOf(p)][c] = @ \ {viewer_id[p]}]
               /\ Pop(p)
               /\ UNCHANGED <<viewers, viewersExp, hdelRemoved>>
     /\ UNCHANGED <<now, store, lockVars, fn, ret, streamLocals, streamVars,
                    stopAt, viewer_id, stopAtRead, shouldStop,
                    monLocals, removedAt, dispatchVars>>

\* viewer_count = hlen(stream_viewers:{camera_id})
RemoveViewerCount(p) ==
  /\ pc[p] = "rm_hlen"
  /\ IF store = "up"
       THEN /\ viewer_count' = [viewer_count EXCEPT ![p] = Cardinality(viewers[camera_id[p]])]
            /\ pc' = [pc EXCEPT ![p] = "rm_setex"]
            /\ UNCHANGED stack
       ELSE /\ viewer_count' = [viewer_count EXCEPT ![p] = 0]
            /\ Pop(p)
  /\ UNCHANGED <<now, store, lockVars, fn, ret, streamLocals, streamVars,
                 viewerStore, viewer_id, stopAtRead, shouldStop, monLocals, removedAt, registered, hdelRemoved, dispatchVars>>

\* if viewer_count == 0: setex(stream_stop_at:{camera_id}, 60, now + 30);
\* return viewer_count
RemoveViewerSetex(p) ==
  LET c == camera_id[p]
  IN /\ pc[p] = "rm_setex"
     /\ IF viewer_count[p] = 0 /\ store = "up"
          THEN /\ stopAt' = [stopAt EXCEPT ![c] = StopDeadline(now)]
               /\ removedAt' = IF hdelRemoved[p]
                                 THEN [removedAt EXCEPT ![c] = now]
                                 ELSE removedAt
          ELSE UNCHANGED <<stopAt, removedAt>>
     /\ Pop(p)
     /\ UNCHANGED <<now, store, lockVars, fn, ret, streamLocals, streamVars,
                    viewers, viewersExp, viewerLocals, monLocals, registered, dispatchVars>>

\* should_stop_stream: viewer_count = await get_stream_viewer_count(camera_id)
ShouldStopCount(p) ==
  /\ pc[p] = "should_count"
  /\ IF store = "unset"
       THEN /\ shouldStop' = [shouldStop EXCEPT ![p] = FALSE]
            /\ Pop(p)
       ELSE /\ pc' = [pc EXCEPT ![p] = IF store = "up" /\ viewers[camera_id[p]] # {}
                                         THEN "should_clear" ELSE "should_get"]
            /\ UNCHANGED <<stack, shouldStop>>
  /\ UNCHANGED <<now, store, lockVars, fn, ret, streamLocals, streamVars, viewerStore,
                 viewer_id, viewer_count, stopAtRead, hdelRemoved, monLocals,
                 removedAt, registered, dispatchVars>>

\* viewer_count > 0: delete(stream_stop_at:{camera_id}); return False
ShouldStopClear(p) ==
  /\ pc[p] = "should_clear"
  /\ stopAt' = IF store = "up" THEN [stopAt EXCEPT ![camera_id[p]] = NoEntry] ELSE stopAt
  /\ shouldStop' = [shouldStop EXCEPT ![p] = FALSE]
  /\ Pop(p)
  /\ UNCHANGED <<now, store, lockVars, fn, ret, streamLocals, streamVars,
                 viewers, viewersExp, viewer_id, viewer_count, stopAtRead,
                 monLocals, removedAt, registered, hdelRemoved, dispatchVars>>

\* stop_at_str = get(stream_stop_at:{camera_id})
ShouldStopGet(p) ==
  /\ pc[p] = "should_get"
  /\ IF store = "up"
       THEN /\ stopAtRead' = [stopAtRead EXCEPT ![p] = stopAt[camera_id[p]].val]
            /\ pc' = [pc EXCEPT ![p] = "should_decide"]
            /\ UNCHANGED <<stack, shouldStop>>
       ELSE /\ shouldStop' = [shouldStop EXCEPT ![p] = FALSE]
            /\ Pop(p)
            /\ UNCHANGED stopAtRead
  /\ UNCHANGED <<now, store, lockVars, fn, ret, streamLocals, streamVars,
                 viewerStore, viewer_id, viewer_count, monLocals, removedAt, registered, hdelRemoved, dispatchVars>>

\* No deadline read: one is created, return False.  A deadline read and
\* now >= stop_at: the key is deleted, return True.  Otherwise return False.
\* A store call that raises makes should_stop_stream return False.
ShouldStopDecide(p) ==
  LET c == camera_id[p]
  IN /\ pc[p] = "should_decide"
     /\ IF store # "up"
          THEN /\ shouldStop' = [shouldStop EXCEPT ![p] = FALSE]
               /\ UNCHANGED stopAt
          ELSE IF stopAtRead[p] = 0
          THEN /\ stopAt' = [stopAt EXCEPT ![c] = StopDeadline(now)]
               /\ shouldStop' = [shouldStop EXCEPT ![p] = FALSE]
          ELSE IF GraceOver(now, stopAtRead[p])
                 THEN /\ stopAt' = [stopAt EXCEPT ![c] = NoEntry]
                      /\ shouldStop' = [shouldStop EXCEPT ![p] = TRUE]
                 ELSE /\ shouldStop' = [shouldStop EXCEPT ![p] = FALSE]
                      /\ UNCHANGED stopAt
     /\ stopAtRead' = [stopAtRead EXCEPT ![p] = 0]
     /\ Pop(p)
     /\ UNCHANGED <<now, store, lockVars, fn, ret, streamLocals, streamVars,
                    viewers, viewersExp, viewer_id, viewer_count, monLocals, removedAt, registered, hdelRemoved, dispatchVars>>

\* POST /api/cameras/{camera_id}/stop-stream: remove_stream_viewer, then
\* should_stop_stream, then the decision.
StopCameraStreaming(p, c, v) ==
  /\ pc[p] = "idle"
  /\ fn' = [fn EXCEPT ![p] = "stop_camera_streaming"]
  /\ camera_id' = [camera_id EXCEPT ![p] = c]
  /\ viewer_id' = [viewer_id EXCEPT ![p] = v]
  /\ pc' = [pc EXCEPT ![p] = "rm_hdel"]
  /\ stack' = [stack EXCEPT ![p] = <<"should_count", "stop_decide">>]
  /\ UNCHANGED <<now, store, lockVars, ret, process, preHandle, rtsp_url, streamVars,
                 viewerStore, viewer_count, stopAtRead, shouldStop, hdelRemoved,
                 monLocals, removedAt, registered, dispatchVars>>

\* if should_stop and viewer_count == 0: await stop_camera_stream(camera_id)
StopCameraStreamingDecide(p) ==
  /\ pc[p] = "stop_decide"
  /\ IF shouldStop[p] /\ viewer_count[p] = 0
       THEN /\ pc' = [pc EXCEPT ![p] = "stop_terminate"]
            /\ stack' = [stack EXCEPT ![p] = <<"scs_unregister">>]
       ELSE /\ pc' = [pc EXCEPT ![p] = "done"]
            /\ UNCHANGED stack
  /\ UNCHANGED <<now, store, lockVars, fn, ret, streamLocals, streamVars, viewerVars, dispatchVars>>

\* ---------------------------------------------------------- health monitor
\* A health check without the allowance for the first segment.
HealthyNoGrace(w, c) ==
  /\ LiveHandle(w, c)
  /\ segmentMtime[c] # NoTime
  /\ now - segmentMtime[c] <= HEALTHY_MAX_AGE

\* is_stream_healthy(camera_id) with its default max_age_seconds.
IsStreamHealthy(w, c) ==
  /\ LiveHandle(w, c)
  /\ IF segmentMtime[c] = NoTime
       THEN /\ stream_last_update[w][c] # NoTime
            /\ now - stream_last_update[w][c] < FIRST_SEGMENT_GRACE
       ELSE now - segmentMtime[c] <= HEALTHY_MAX_AGE

\* get_stream_stats(camera_id), reduced to what the monitor branches on.
StreamStats(w, c) ==
  IF active_streams[w][c] = NoPid THEN "absent"
  ELSE IF active_streams[w][c] \notin procAlive THEN "ended"
  ELSE IF IsStreamHealthy(w, c) THEN "ok"
  ELSE "unhealthy"

\* `camera and camera.rtsp_url` for the row the monitor looks up.
ConfiguredCameras == {1}
CameraConfigured(c) == c \in ConfiguredCameras

\* The call force_restart_stream(camera_id, rtsp_url) that returns to label
\* cont: stop_stream first if the camera has an entry.
ForceRestartCall(p, c, cont) ==
  IF active_streams[WorkerOf(p)][c] # NoPid
    THEN /\ pc' = [pc EXCEPT ![p] = "stop_terminate"]
         /\ stack' = [stack EXCEPT ![p] = <<"fr_cleanup", cont>> \o @]
    ELSE /\ pc' = [pc EXCEPT ![p] = "fr_cleanup"]
         /\ stack' = [stack EXCEPT ![p] = <<cont>> \o @]

\* force_restart_stream after the stop: _cleanup_stream_files, sleep(1),
\* start_stream, whose validate_rtsp_url may reject the URL.
ForceRestartCleanup(p, urlOk) ==
  LET c == camera_id[p]
  IN /\ pc[p] = "fr_cleanup"
     /\ playlistMtime' = CleanedPlaylist(c)
     /\ segmentMtime' = CleanedSegments(c)
     /\ IF urlOk
          THEN /\ pc' = [pc EXCEPT ![p] = "stop_terminate"]
               /\ stack' = [stack EXCEPT ![p] = <<"ss_orphans">> \o @]
               /\ UNCHANGED ret
          ELSE /\ ret' = [ret EXCEPT ![p] = "False"]
               /\ Pop(p)
     /\ UNCHANGED <<now, store, lockVars, fn, streamLocals, active_streams, stream_last_update,
                    procVars, streamActive, pendingDelete, viewerVars, dispatchVars>>

\* One monitor iteration starts after sleep(STREAM_MONITOR_INTERVAL):
\* all_stats = get_all_streams_stats(); the directories of the cameras that
\* are not in all_stats are left to scan.
MonitorWake(p) ==
  LET w == WorkerOf(p)
  IN /\ pc[p] = "idle"
     /\ TaskNameOf(p) = MonitorTask
     /\ fn' = [fn EXCEPT ![p] = "stream_monitor_task"]
     /\ all_stats' = [all_stats EXCEPT ![p] = [c \in Cameras |-> StreamStats(w, c)]]
     /\ monTodo' = [monTodo EXCEPT ![p] = {c \in Cameras : StreamStats(w, c) = "absent"}]
     /\ pc' = [pc EXCEPT ![p] = "mon_scan"]
     /\ UNCHANGED <<now, store, lockVars, stack, ret, streamLocals, streamVars, viewerStore,
                    viewerLocals, cpu_percent, memory_mb, removedAt, registered, dispatchVars>>

\* The stale-directory scan visits one directory: a playlist older than
\* STALE_PLAYLIST_AGE makes it force-restart the camera (or clean the files
\* of a camera that is not configured).
MonitorScanDir(p) ==
  /\ pc[p] = "mon_scan"
  /\ \E c \in monTodo[p] :
       /\ monTodo' = [monTodo EXCEPT ![p] = @ \ {c}]
       /\ camera_id' = [camera_id EXCEPT ![p] = c]
       /\ IF playlistMtime[c] # NoTime /\ now - playlistMtime[c] > STALE_PLAYLIST_AGE
            THEN IF CameraConfigured(c)
                   THEN /\ ForceRestartCall(p, c, "mon_scan")
                        /\ UNCHANGED fileVars
                   ELSE /\ playlistMtime' = CleanedPlaylist(c)
                        /\ segmentMtime' = CleanedSegments(c)
                        /\ UNCHANGED <<pc, stack>>
            ELSE UNCHANGED <<pc, stack, fileVars>>
  /\ UNCHANGED <<now, store, lockVars, fn, ret, process, preHandle, rtsp_url, active_streams,
                 stream_last_update, procVars, streamActive, pendingDelete,
                 viewerStore, viewerLocals, all_stats, cpu_percent, memory_mb, removedAt,
                 registered, dispatchVars>>

\* The scan is over: `if not all_stats` goes straight to the orphan sweep,
\* otherwise the per-camera loop starts.
MonitorScanEnd(p) ==
  LET tracked == {c \in Cameras : all_stats[p][c] # "absent"}
  IN /\ pc[p] = "mon_scan"
     /\ monTodo[p] = {}
     /\ monTodo' = [monTodo EXCEPT ![p] = tracked]
     /\ pc' = [pc EXCEPT ![p] = IF tracked = {} THEN "mon_sweep" ELSE "mon_pick"]
     /\ UNCHANGED <<now, store, lockVars, fn, stack, ret, streamLocals, streamVars,
                    viewerStore, viewerLocals, all_stats, cpu_percent, memory_mb, removedAt,
                 registered, dispatchVars>>

\* The per-camera loop takes the next camera of all_stats: a stream that is
\* not active is stopped, an unhealthy one is force-restarted (stopped when
\* the camera is not configured), a healthy one goes to the viewer check.
MonitorPick(p) ==
  /\ pc[p] = "mon_pick"
  /\ \E c \in monTodo[p] :
       /\ monTodo' = [monTodo EXCEPT ![p] = @ \ {c}]
       /\ camera_id' = [camera_id EXCEPT ![p] = c]
       /\ IF all_stats[p][c] = "ended" \/ (all_stats[p][c] = "unhealthy" /\ ~CameraConfigured(c))
            THEN /\ pc' = [pc EXCEPT ![p] = "stop_terminate"]
                 /\ stack' = [stack EXCEPT ![p] = <<"mon_pick">> \o @]
            ELSE IF all_stats[p][c] = "unhealthy"
                   THEN ForceRestartCall(p, c, "mon_pick")
                   ELSE /\ pc' = [pc EXCEPT ![p] = "mon_count"]
                        /\ UNCHANGED stack
  /\ UNCHANGED <<now, store, lockVars, fn, ret, process, preHandle, rtsp_url, streamVars,
                 viewerStore, viewerLocals, all_stats, cpu_percent, memory_mb, removedAt,
                 registered, dispatchVars>>

\* viewer_count = await get_stream_viewer_count(camera_id); then
\* should_stop = await should_stop_stream(camera_id)
MonitorViewerCount(p) ==
  /\ pc[p] = "mon_count"
  /\ viewer_count' = [viewer_count EXCEPT ![p] =
                        IF store = "up" THEN Cardinality(viewers[camera_id[p]]) ELSE 0]
  /\ pc' = [pc EXCEPT ![p] = "should_count"]
  /\ stack' = [stack EXCEPT ![p] = <<"mon_decide">> \o @]
  /\ UNCHANGED <<now, store, lockVars, fn, ret, streamLocals, streamVars, viewerStore,
                 viewer_id, stopAtRead, shouldStop, monLocals, removedAt, registered, hdelRemoved, dispatchVars>>

\* if should_stop and viewer_count == 0: await stop_camera_stream(camera_id)
MonitorViewerDecide(p) ==
  /\ pc[p] = "mon_decide"
  /\ IF shouldStop[p] /\ viewer_count[p] = 0
       THEN /\ pc' = [pc EXCEPT ![p] = "stop_terminate"]
            /\ stack' = [stack EXCEPT ![p] = <<"scs_unregister", "mon_pick">> \o @]
       ELSE /\ pc' = [pc EXCEPT ![p] = "mon_refresh"]
            /\ UNCHANGED stack
  /\ UNCHANGED <<now, store, lockVars, fn, ret, streamLocals, streamVars, viewerVars, dispatchVars>>

\* Usage figures of a stream, at and above the configured maxima.
STREAM_MAX_CPU_PERCENT == 50
STREAM_MAX_MEMORY_MB == 500
CpuSamples == {STREAM_MAX_CPU_PERCENT, STREAM_MAX_CPU_PERCENT + 1}
MemorySamples == {STREAM_MAX_MEMORY_MB, STREAM_MAX_MEMORY_MB + 1}

\* cpu_percent and memory_mb are taken from the camera's stats; the marker
\* stream_active:{camera_id} is renewed for 60 s (the health record
\* stream_health:{camera_id} is written too; nothing here reads it).
\* Memory above STREAM_MAX_MEMORY_MB force-restarts a configured camera;
\* CPU above STREAM_MAX_CPU_PERCENT only logs.
MonitorRefresh(p, cpu, mem) ==
  LET c == camera_id[p]
  IN /\ pc[p] = "mon_refresh"
     /\ cpu_percent' = [cpu_percent EXCEPT ![p] = cpu]
     /\ memory_mb' = [memory_mb EXCEPT ![p] = mem]
     /\ streamActive' = [streamActive EXCEPT ![c] = now + STREAM_ACTIVE_TTL]
     /\ IF mem > STREAM_MAX_MEMORY_MB /\ CameraConfigured(c)
          THEN ForceRestartCall(p, c, "mon_pick")
          ELSE /\ pc' = [pc EXCEPT ![p] = "mon_pick"]
               /\ UNCHANGED stack
     /\ UNCHANGED <<now, store, lockVars, fn, ret, streamLocals, active_streams,
                    stream_last_update, procVars, fileVars, pendingDelete, viewerStore,
                    viewerLocals, monTodo, all_stats, removedAt, registered, dispatchVars>>

\* The per-camera loop is over.
MonitorLoopEnd(p) ==
  /\ pc[p] = "mon_pick"
  /\ monTodo[p] = {}
  /\ pc' = [pc EXCEPT ![p] = "mon_sweep"]
  /\ UNCHANGED <<now, store, lockVars, fn, stack, ret, streamLocals, streamVars, viewerVars, dispatchVars>>

\* A sweep that spares the processes of every worker's handles.
FleetPids(w) == {active_streams[v][c] : v \in Workers, c \in Cameras} \ {NoPid}

\* cleanup_all_orphaned_streams: every ffmpeg process whose pid is not the
\* pid of one of this worker's handles is terminated.
ManagedPids(w) == {active_streams[w][c] : c \in Cameras} \ {NoPid}
MonitorSweep(p) ==
  /\ pc[p] = "mon_sweep"
  /\ procAlive' = procAlive \cap ManagedPids(WorkerOf(p))
  /\ pc' = [pc EXCEPT ![p] = "done"]
  /\ UNCHANGED <<now, store, lockVars, fn, stack, ret, streamLocals, active_streams,
                 stream_last_update, nextPid, procCam, procWorker, fileVars,
                 streamActive, pendingDelete, viewerVars, dispatchVars>>

\* Time passes; Redis expires every key that is due.
PurgeViewers(t) == [c \in Cameras |-> IF viewersExp[c] # 0 /\ viewersExp[c] <= t THEN {} ELSE viewers[c]]
PurgeViewersExp(t) == [c \in Cameras |-> IF viewersExp[c] <= t THEN 0 ELSE viewersExp[c]]
PurgeMarkers(t) == [c \in Cameras |-> IF streamActive[c] <= t THEN 0 ELSE streamActive[c]]
Tick(steps, maxTime) ==
  /\ \E d \in steps :
       /\ now + d <= maxTime
       /\ now' = now + d
       /\ locks' = Purge(locks, now + d)
       /\ lockOwner' = PurgeOwners(now + d)
       /\ viewers' = PurgeViewers(now + d)
       /\ viewersExp' = PurgeViewersExp(now + d)
       /\ stopAt' = Purge(stopAt, now + d)
       /\ streamActive' = PurgeMarkers(now + d)
  /\ UNCHANGED <<store, lockKey, startTime, acquired, crashExp, callVars, streamLocals,
                 active_streams, stream_last_update, procVars, fileVars, pendingDelete,
                 viewerLocals, monLocals, removedAt, registered, dispatchVars>>
TickViewer == Tick(ViewerTickSteps, ViewerMaxTime)
TickMonitor == Tick(MonitorTickSteps, MonitorMaxTime)

\* ------------------------------------------------------ operator dispatch
\* The rows `AccountClaim.expires_at > datetime.utcnow()` selects.
ActiveClaims == {r \in claims : r.exp > now}
RowsOf(a) == {r \in claims : r.account = a}

\* An insert that no constraint guards.
InsertUnchecked(rows, a) == TRUE

\* A pick that ignores the counter.
SelectedFirst(avail, c) == avail[1]

\* AccountClaim.account_id is unique: an insert commits only when the table
\* holds no row of that account, expired or not.
InsertAllowed(rows, a) == \A r \in rows : r.account # a

\* The users a query returns, in primary-key order.
RECURSIVE SortedSeq(_)
SortedSeq(S) ==
  IF S = {} THEN <<>>
  ELSE LET m == CHOOSE x \in S : \A y \in S : x <= y
       IN <<m>> \o SortedSeq(S \ {m})

\* The two assign functions differ in lock key, role filter and counter.
IsAssign(p) == fn[p] \in {"assign_event_to_operator", "assign_escalated_event_to_escalate_user"}
PoolUsers(p) == IF fn[p] = "assign_event_to_operator" THEN RegularOps ELSE EscalateOps
CounterKey(p) == IF fn[p] = "assign_event_to_operator"
                   THEN "assignment_counter" ELSE "escalate_assignment_counter"

\* receiving users of the pool that no active claim names.
AvailableUsers(p) ==
  LET busy_user_ids == {r.user : r \in ActiveClaims}
  IN SortedSeq((receiving \cap PoolUsers(p)) \ busy_user_ids)

\* available_users[counter % len(available_users)]
SelectedUser(avail, c) == avail[(c % Len(avail)) + 1]

\* simulate_test_alarm calls assign_event_to_operator for the new event's
\* account once the event is committed.
IngestionAssign(p, a) ==
  /\ counter["assignment_counter"] < MaxCounter
  /\ calls < MaxCalls
  /\ LockEnter(p, "assign_event_to_operator", <<"assign_event", a>>)

\* auto_assign_task, pending events: an account without active claim.
AutoAssignPending(p, a) ==
  /\ counter["assignment_counter"] < MaxCounter
  /\ calls < MaxCalls
  /\ \A r \in ActiveClaims : r.account # a
  /\ LockEnter(p, "assign_event_to_operator", <<"assign_event", a>>)

\* auto_assign_task, escalated events: an account without active claim.
AutoAssignEscalated(p, a) ==
  /\ counter["escalate_assignment_counter"] < MaxCounter
  /\ a \in escalated
  /\ \A r \in ActiveClaims : r.account # a
  /\ LockEnter(p, "assign_escalated_event_to_escalate_user", <<"assign_escalate", a>>)

\* A scope body that takes the lock for granted.
AcquiredAssumed(p) == FALSE

\* `if not acquired:` at the head of the scope body.
NotAcquired(p) == ~acquired[p]

\* Inside the scope: `if not acquired: return None`, then the query for an
\* active claim of the account, whose owner is returned if there is one.
AssignCheck(p) ==
  LET existing == {r \in ActiveClaims : r.account = account_id[p]}
  IN /\ pc[p] = "body"
     /\ IsAssign(p)
     /\ IF NotAcquired(p)
          THEN /\ ret' = [ret EXCEPT ![p] = "None"]
               /\ pc' = [pc EXCEPT ![p] = "exit"]
               /\ UNCHANGED assigned
          ELSE IF existing # {}
                 THEN /\ assigned' = [assigned EXCEPT ![p] = (CHOOSE r \in existing : TRUE).user]
                      /\ ret' = [ret EXCEPT ![p] = "user"]
                      /\ pc' = [pc EXCEPT ![p] = "exit"]
                 ELSE /\ pc' = [pc EXCEPT ![p] = "select"]
                      /\ UNCHANGED <<ret, assigned, account_id>>
     /\ UNCHANGED <<now, store, lockVars, fn, stack, streamLocals, streamVars, viewerVars,
                    dispatchStore, available, selected_user, dispatchHistory, account_id>>

\* The receiving users of the pool and the active claims are queried; with
\* nobody available the call returns None.
AssignSelect(p) ==
  /\ pc[p] = "select"
  /\ available' = [available EXCEPT ![p] = AvailableUsers(p)]
  /\ IF AvailableUsers(p) = <<>>
       THEN /\ ret' = [ret EXCEPT ![p] = "None"]
            /\ pc' = [pc EXCEPT ![p] = "exit"]
       ELSE /\ pc' = [pc EXCEPT ![p] = "incr"]
            /\ UNCHANGED ret
  /\ UNCHANGED <<now, store, lockVars, fn, stack, streamLocals, streamVars, viewerVars,
                 dispatchStore, selected_user, assigned, dispatchHistory, account_id>>

\* An increment that fails: RedisCoordinator.increment then returns 0.
IncrementFailed(c) == 0

\* RedisCoordinator.increment: INCR returns the new value.
Incremented(c) == c + 1

\* counter = await redis_coordinator.increment(counter_key); the user at
\* counter % len(available_users) is selected.
AssignIncrement(p) ==
  LET c == IF store = "up" THEN Incremented(counter[CounterKey(p)]) ELSE 0
  IN /\ pc[p] = "incr"
     /\ counter' = IF store = "up" THEN [counter EXCEPT ![CounterKey(p)] = c] ELSE counter
     /\ selected_user' = [selected_user EXCEPT ![p] = SelectedUser(available[p], c)]
     /\ pc' = [pc EXCEPT ![p] = "commit"]
     /\ UNCHANGED <<now, store, lockVars, fn, stack, ret, streamLocals, streamVars, viewerVars,
                    claims, claimMirror, receiving, escalated, available, assigned,
                    dispatchHistory, account_id>>

\* The last three increments of the escalate pool, newest last.
Logged(entry) ==
  LET h == Append(history, entry)
  IN IF Len(h) > 3 THEN Tail(h) ELSE h

\* db.add(claim); db.commit(): the row is inserted, or the unique constraint
\* raises IntegrityError, which leaves the function through the scope.
AssignCommit(p) ==
  LET a == account_id[p]
      u == selected_user[p]
      ok == InsertAllowed(claims, a)
  IN /\ pc[p] = "commit"
     /\ IF ok
          THEN /\ claims' = claims \cup {[account |-> a, user |-> u, exp |-> now + CLAIM_TTL]}
               /\ pc' = [pc EXCEPT ![p] = "mirror"]
               /\ UNCHANGED <<ret, rejected>>
          ELSE /\ rejected' = rejected \cup {a}
               /\ ret' = [ret EXCEPT ![p] = "raised"]
               /\ pc' = [pc EXCEPT ![p] = "exit"]
               /\ UNCHANGED claims
     /\ IF fn[p] = "assign_event_to_operator"
          THEN /\ picks' = IF ok THEN [picks EXCEPT ![u] = @ + 1] ELSE picks
               /\ UNCHANGED history
          ELSE /\ history' = Logged([account |-> a, user |-> IF ok THEN u ELSE 0,
                                     n |-> Len(available[p])])
               /\ UNCHANGED picks
     /\ UNCHANGED <<now, store, lockVars, fn, stack, streamLocals, streamVars, viewerVars,
                    counter, claimMirror, receiving, escalated, dispatchLocals, calls,
                    deadDropped>>

\* The claim is mirrored to claim:{account_id} for 1800 s and broadcast; the
\* selected user's id is returned.
AssignMirror(p) ==
  /\ pc[p] = "mirror"
  /\ claimMirror' = IF store = "up"
                      THEN [claimMirror EXCEPT ![account_id[p]] =
                              [val |-> selected_user[p], exp |-> now + CLAIM_MIRROR_TTL]]
                      ELSE claimMirror
  /\ assigned' = [assigned EXCEPT ![p] = selected_user[p]]
  /\ ret' = [ret EXCEPT ![p] = "user"]
  /\ pc' = [pc EXCEPT ![p] = "exit"]
  /\ UNCHANGED <<now, store, lockVars, fn, stack, streamLocals, streamVars, viewerVars,
                 claims, counter, receiving, escalated, available, selected_user,
                 dispatchHistory, account_id>>

\* POST /api/accounts/{account_id}/claim by user u: the row of the account
\* is read.  Another user's active claim: 409.  Another user's expired
\* claim: deleted, then the insert.  The user's own claim: renewed.
ClaimAccount(p, a, u) ==
  LET rows == RowsOf(a)
      row == CHOOSE r \in rows : TRUE
  IN /\ pc[p] = "idle"
     /\ fn' = [fn EXCEPT ![p] = "claim_account"]
     /\ account_id' = [account_id EXCEPT ![p] = a]
     /\ selected_user' = [selected_user EXCEPT ![p] = u]
     /\ IF rows = {}
          THEN /\ pc' = [pc EXCEPT ![p] = "claim_insert"]
               /\ UNCHANGED <<claims, ret>>
          ELSE IF row.user # u
                 THEN IF row.exp > now
                        THEN /\ ret' = [ret EXCEPT ![p] = "conflict"]
                             /\ pc' = [pc EXCEPT ![p] = "done"]
                             /\ UNCHANGED claims
                        ELSE /\ claims' = claims \ {row}
                             /\ pc' = [pc EXCEPT ![p] = "claim_insert"]
                             /\ UNCHANGED ret
                 ELSE /\ claims' = (claims \ {row}) \cup {[row EXCEPT !.exp = now + CLAIM_TTL]}
                      /\ ret' = [ret EXCEPT ![p] = "renewed"]
                      /\ pc' = [pc EXCEPT ![p] = "done"]
     /\ UNCHANGED <<now, store, lockVars, stack, streamLocals, streamVars, viewerVars,
                    counter, claimMirror, receiving, escalated, available, assigned,
                    dispatchHistory>>

\* claim_account: db.add(claim); db.commit().  A row of the account that
\* appeared meanwhile makes the commit raise IntegrityError.
ClaimAccountInsert(p) ==
  LET a == account_id[p]
  IN /\ pc[p] = "claim_insert"
     /\ IF InsertAllowed(claims, a)
          THEN /\ claims' = claims \cup {[account |-> a, user |-> selected_user[p],
                                          exp |-> now + CLAIM_TTL]}
               /\ ret' = [ret EXCEPT ![p] = "claimed"]
               /\ UNCHANGED rejected
          ELSE /\ rejected' = rejected \cup {a}
               /\ ret' = [ret EXCEPT ![p] = "raised"]
               /\ UNCHANGED claims
     /\ pc' = [pc EXCEPT ![p] = "done"]
     /\ UNCHANGED <<now, store, lockVars, fn, stack, streamLocals, streamVars, viewerVars,
                    counter, claimMirror, receiving, escalated, dispatchLocals,
                    history, picks, calls, deadDropped>>

\* POST /api/accounts/{account_id}/release by user u: the user's own claim
\* on the account is deleted.
ReleaseAccount(a, u) ==
  /\ \E r \in claims : r.account = a /\ r.user = u
  /\ claims' = {r \in claims : ~(r.account = a /\ r.user = u)}
  /\ UNCHANGED <<now, store, lockVars, callVars, streamLocals, streamVars, viewerVars,
                 counter, claimMirror, receiving, escalated, dispatchLocals,
                 dispatchHistory>>

\* PUT /api/events/{event_id}/escalate for an event of account a: any claim
\* on the account is deleted and the event's status becomes "escalated".
EscalateEvent(a) ==
  /\ claims' = claims \ RowsOf(a)
  /\ escalated' = escalated \cup {a}
  /\ claims' # claims \/ escalated' # escalated
  /\ UNCHANGED <<now, store, lockVars, callVars, streamLocals, streamVars, viewerVars,
                 counter, claimMirror, receiving, dispatchLocals, dispatchHistory>>

\* The endpoint that sets current_user.is_receiving.
SetReceiving(u, flag) ==
  /\ receiving' = IF flag THEN receiving \cup {u} ELSE receiving \ {u}
  /\ receiving' # receiving
  /\ UNCHANGED <<now, store, lockVars, callVars, streamLocals, streamVars, viewerVars,
                 claims, counter, claimMirror, escalated, dispatchLocals,
                 dispatchHistory>>

\* Time passes to the next instant of a set of instants; Redis expires what is
\* due (claim rows stay in the table when they expire).
TickTo(times) ==
  /\ \E t \in times :
       /\ t > now
       /\ \A t2 \in times : t2 > now => t <= t2
       /\ now' = t
       /\ locks' = Purge(locks, t)
       /\ lockOwner' = PurgeOwners(t)
       /\ claimMirror' = Purge(claimMirror, t)
  /\ UNCHANGED <<store, lockKey, startTime, acquired, crashExp, callVars, streamLocals, streamVars,
                 viewerVars, claims, counter, receiving, escalated, dispatchLocals,
                 dispatchHistory>>
TickDispatch == TickTo(DispatchTimes)
TickAssign == TickTo(AssignTimes)
TickClaim == TickTo(ClaimTimes)

\* The coordination store becomes unreachable or reachable again.  A worker
\* has no client only when redis.from_url failed at its startup, so "unset"
\* is entered and left between calls.
StoreSetting(s) ==
  /\ s # store
  /\ (s = "unset" \/ store = "unset") => \A p \in Procs : pc[p] = "idle"
  /\ store' = s
  /\ UNCHANGED <<now, lockVars, callVars, streamLocals, streamVars, viewerVars, dispatchVars>>

\* Worker w dies while one of its callers is inside a lock scope (no finally
\* block runs) and is started again: its tasks and in-memory tables are
\* fresh, and startup_event kills every ffmpeg process.
WorkerCrash(w) ==
  LET mine(p) == WorkerOf(p) = w
      left == {k \in LockKeys : lockOwner[k] \in Procs /\ mine(lockOwner[k])}
  IN /\ \E p \in Procs : mine(p) /\ pc[p] = "body" /\ acquired[p]
     /\ pc' = [p \in Procs |-> IF mine(p) THEN "idle" ELSE pc[p]]
     /\ fn' = [p \in Procs |-> IF mine(p) THEN "none" ELSE fn[p]]
     /\ stack' = [p \in Procs |-> IF mine(p) THEN <<>> ELSE stack[p]]
     /\ ret' = [p \in Procs |-> IF mine(p) THEN "none" ELSE ret[p]]
     /\ lockKey' = [p \in Procs |-> IF mine(p) THEN NoKey ELSE lockKey[p]]
     /\ startTime' = [p \in Procs |-> IF mine(p) THEN 0 ELSE startTime[p]]
     /\ acquired' = [p \in Procs |-> IF mine(p) THEN FALSE ELSE acquired[p]]
     /\ lockOwner' = [k \in LockKeys |-> IF k \in left THEN DeadProc ELSE lockOwner[k]]
     /\ crashExp' = [k \in LockKeys |-> IF k \in left THEN locks[k].exp ELSE crashExp[k]]
     /\ camera_id' = [p \in Procs |-> IF mine(p) THEN 0 ELSE camera_id[p]]
     /\ process' = [p \in Procs |-> IF mine(p) THEN NoPid ELSE process[p]]
     /\ preHandle' = [p \in Procs |-> IF mine(p) THEN NoPid ELSE preHandle[p]]
     /\ rtsp_url' = [p \in Procs |-> IF mine(p) THEN NoUrl ELSE rtsp_url[p]]
     /\ viewer_id' = [p \in Procs |-> IF mine(p) THEN 0 ELSE viewer_id[p]]
     /\ viewer_count' = [p \in Procs |-> IF mine(p) THEN 0 ELSE viewer_count[p]]
     /\ stopAtRead' = [p \in Procs |-> IF mine(p) THEN 0 ELSE stopAtRead[p]]
     /\ shouldStop' = [p \in Procs |-> IF mine(p) THEN FALSE ELSE shouldStop[p]]
     /\ hdelRemoved' = [p \in Procs |-> IF mine(p) THEN FALSE ELSE hdelRemoved[p]]
     /\ monTodo' = [p \in Procs |-> IF mine(p) THEN {} ELSE monTodo[p]]
     /\ all_stats' = [p \in Procs |-> IF mine(p) THEN [c \in Cameras |-> "absent"] ELSE all_stats[p]]
     /\ cpu_percent' = [p \in Procs |-> IF mine(p) THEN 0 ELSE cpu_percent[p]]
     /\ memory_mb' = [p \in Procs |-> IF mine(p) THEN 0 ELSE memory_mb[p]]
     /\ account_id' = [p \in Procs |-> IF mine(p) THEN 0 ELSE account_id[p]]
     /\ available' = [p \in Procs |-> IF mine(p) THEN <<>> ELSE available[p]]
     /\ selected_user' = [p \in Procs |-> IF mine(p) THEN 0 ELSE selected_user[p]]
     /\ assigned' = [p \in Procs |-> IF mine(p) THEN 0 ELSE assigned[p]]
     /\ active_streams' = [active_streams EXCEPT ![w] = [c \in Cameras |-> NoPid]]
     /\ stream_last_update' = [stream_last_update EXCEPT ![w] = [c \in Cameras |-> NoTime]]
     /\ pendingDelete' = [pendingDelete EXCEPT ![w] = {}]
     /\ registered' = [registered EXCEPT ![w] = [c \in Cameras |-> {}]]
     /\ procAlive' = {}
     /\ UNCHANGED <<now, store, locks, nextPid, procCam, procWorker, fileVars, streamActive,
                    viewerStore, removedAt, dispatchStore, dispatchHistory>>

Init ==
  /\ now = 0
  /\ locks = [k \in LockKeys |-> NoEntry]
  /\ pc = [p \in Procs |-> "idle"]
  /\ fn = [p \in Procs |-> "none"]
  /\ lockKey = [p \in Procs |-> NoKey]
  /\ startTime = [p \in Procs |-> 0]
  /\ acquired = [p \in Procs |-> FALSE]
  /\ stack = [p \in Procs |-> <<>>]
  /\ ret = [p \in Procs |-> "none"]
  /\ camera_id = [p \in Procs |-> 0]
  /\ process = [p \in Procs |-> NoPid]
  /\ preHandle = [p \in Procs |-> NoPid]
  /\ rtsp_url = [p \in Procs |-> NoUrl]
  /\ active_streams = [w \in Workers |-> [c \in Cameras |-> NoPid]]
  /\ stream_last_update = [w \in Workers |-> [c \in Cameras |-> NoTime]]
  /\ nextPid = 1
  /\ procAlive = {}
  /\ procCam = [i \in Pids |-> 0]
  /\ procWorker = [i \in Pids |-> 0]
  /\ playlistMtime = [c \in Cameras |-> NoTime]
  /\ segmentMtime = [c \in Cameras |-> NoTime]
  /\ streamActive = [c \in Cameras |-> 0]
  /\ pendingDelete = [w \in Workers |-> {}]
  /\ viewers = [c \in Cameras |-> {}]
  /\ viewersExp = [c \in Cameras |-> 0]
  /\ stopAt = [c \in Cameras |-> NoEntry]
  /\ viewer_id = [p \in Procs |-> 0]
  /\ viewer_count = [p \in Procs |-> 0]
  /\ stopAtRead = [p \in Procs |-> 0]
  /\ shouldStop = [p \in Procs |-> FALSE]
  /\ hdelRemoved = [p \in Procs |-> FALSE]
  /\ monTodo = [p \in Procs |-> {}]
  /\ all_stats = [p \in Procs |-> [c \in Cameras |-> "absent"]]
  /\ cpu_percent = [p \in Procs |-> 0]
  /\ memory_mb = [p \in Procs |-> 0]
  /\ removedAt = [c \in Cameras |-> NoTime]
  /\ claims = {}
  /\ counter = [k \in CounterKeys |-> 0]
  /\ claimMirror = [a \in Accounts |-> NoEntry]
  /\ receiving = Operators
  /\ escalated = {}
  /\ account_id = [p \in Procs |-> 0]
  /\ available = [p \in Procs |-> <<>>]
  /\ selected_user = [p \in Procs |-> 0]
  /\ assigned = [p \in Procs |-> 0]
  /\ rejected = {}
  /\ history = <<>>
  /\ picks = [u \in Operators |-> 0]
  /\ calls = 0
  /\ deadDropped = [w \in Workers |-> {}]
  /\ store = "up"
  /\ lockOwner = [k \in LockKeys |-> NoProc]
  /\ crashExp = [k \in LockKeys |-> NoTime]
  /\ registered = [w \in Workers |-> [c \in Cameras |-> {}]]

LockOnlyKeys == {<<"assign_event", a>> : a \in Accounts}
LockProcs == {<<1, 1>>, <<2, 1>>, <<1, 2>>}

NextLock ==
  \/ \E p \in LockProcs, k \in LockOnlyKeys : LockOnlyCall(p, k)
  \/ \E p \in Procs : LockTry(p)
  \/ \E p \in Procs : LockExit(p)
  \/ TickLock

SpecLock == Init /\ [][NextLock]_vars

\* Lock scopes of callers whose worker process may be killed inside a scope.
SpecCrash ==
  Init /\ [][
       \/ \E p \in LockProcs, k \in LockOnlyKeys : LockOnlyCall(p, k)
       \/ \E p \in Procs : LockTry(p)
       \/ \E p \in Procs : LockExit(p)
       \/ \E w \in Workers : WorkerCrash(w)
       \/ TickLock
          ]_vars

\* Lock scopes and viewer registrations of one worker while the store goes
\* away and comes back.
SpecOutage ==
  Init /\ [][
       \/ \E s \in StoreStates : StoreSetting(s)
       \/ LockOnlyCall(<<1, 1>>, <<"assign_event", 1>>)
       \/ \E p \in Procs : LockTry(p)
       \/ \E p \in Procs : LockExit(p)
       \/ \E c \in ViewedCameras, v \in ViewerIds : AddStreamViewer(<<1, 2>>, c, v)
       \/ \E p \in Procs : AddViewerExpire(p)
       \/ \E p \in Procs : AddViewerCount(p)
       \/ \E c \in ViewedCameras, v \in ViewerIds : StopCameraStreaming(<<1, 2>>, c, v)
       \/ \E p \in Procs : RemoveViewerHdel(p)
       \/ \E p \in Procs : RemoveViewerCount(p)
       \/ \E p \in Procs : RemoveViewerSetex(p)
       \/ \E p \in Procs : ShouldStopCount(p)
       \/ \E p \in Procs : ShouldStopClear(p)
       \/ \E p \in Procs : ShouldStopGet(p)
       \/ \E p \in Procs : ShouldStopDecide(p)
       \/ \E p \in Procs : StopCameraStreamingDecide(p)
       \/ \E p \in Procs : StopStreamTerminate(p)
       \/ \E p \in Procs : StopCameraStreamUnregister(p)
       \/ \E p \in Procs : Return(p)
       \/ Tick(ViewerTickSteps, GRACE_PERIOD)
          ]_vars

StartProcs == {<<1, 1>>, <<1, 2>>}

NextStart ==
  \/ \E p \in StartProcs, c \in ViewedCameras, u \in Urls : StartCameraStream(p, c, u)
  \/ \E p \in Procs : StopStreamTerminate(p)
  \/ \E p \in Procs : StopStreamDelete(p)
  \/ \E p \in Procs : StartStreamOrphans(p)
  \/ \E p \in Procs : StartStreamSpawn(p)
  \/ \E p \in Procs : StartStreamPoll(p)
  \/ \E p \in Procs : StartCameraStreamRegister(p)
  \/ \E p \in StartProcs, c \in ViewedCameras : StopCameraStream(p, c)
  \/ \E p \in Procs : StopCameraStreamUnregister(p)
  \/ \E p \in Procs : Return(p)
  \/ \E i \in Pids : EncoderExit(i)
  \/ \E i \in Pids : EncoderWrite(i)

SpecStart == Init /\ [][NextStart]_vars

\* Worker 1 starts and stops the camera's stream while worker 2 asks whether
\* the stream is ready.
SpecReady ==
  Init /\ [][
       \/ \E c \in ViewedCameras : StartCameraStream(<<1, 2>>, c, CameraUrl)
       \/ \E p \in Procs : StopStreamTerminate(p)
       \/ \E p \in Procs : StopStreamDelete(p)
       \/ \E p \in Procs : StartStreamOrphans(p)
       \/ \E p \in Procs : StartStreamSpawn(p)
       \/ \E p \in Procs : StartStreamPoll(p)
       \/ \E p \in Procs : StartCameraStreamRegister(p)
       \/ \E c \in ViewedCameras : StopCameraStream(<<1, 2>>, c)
       \/ \E p \in Procs : StopCameraStreamUnregister(p)
       \/ \E c \in ViewedCameras : IsStreamReadyCall(<<2, 1>>, c)
       \/ \E p \in Procs : Return(p)
       \/ \E i \in Pids : EncoderExit(i)
       \/ \E i \in Pids : EncoderWrite(i)
       \/ TickMonitor
          ]_vars

ViewerProcs == {<<1, 2>>, <<2, 1>>}

NextViewer ==
  \/ \E p \in ViewerProcs, c \in ViewedCameras, v \in ViewerIds : AddStreamViewer(p, c, v)
  \/ \E p \in Procs : AddViewerExpire(p)
  \/ \E p \in Procs : AddViewerCount(p)
  \/ \E p \in ViewerProcs, c \in ViewedCameras, v \in ViewerIds : StopCameraStreaming(p, c, v)
  \/ \E p \in Procs : RemoveViewerHdel(p)
  \/ \E p \in Procs : RemoveViewerCount(p)
  \/ \E p \in Procs : RemoveViewerSetex(p)
  \/ \E p \in Procs : ShouldStopCount(p)
  \/ \E p \in Procs : ShouldStopClear(p)
  \/ \E p \in Procs : ShouldStopGet(p)
  \/ \E p \in Procs : ShouldStopDecide(p)
  \/ \E p \in Procs : StopCameraStreamingDecide(p)
  \/ \E p \in Procs : StopStreamTerminate(p)
  \/ \E p \in Procs : StopCameraStreamUnregister(p)
  \/ \E p \in Procs : Return(p)
  \/ TickViewer

SpecViewer == Init /\ [][NextViewer]_vars

StarterProcs == {<<1, 2>>}
MonitorProcs == {<<1, 1>>}
AdderProcs == {<<2, 1>>}
MonitorViewerIds == {1}

\* The viewer calls of two workers and the stream monitor of worker 1 one
\* after the other: a call starts and time passes only between calls.
SpecViewerSeq ==
  Init /\ [][
       \/ \E p \in StarterProcs, c \in ViewedCameras : AllIdle /\ nextPid = 1 /\ StartCameraStream(p, c, CameraUrl)
       \/ \E p \in Procs : StopStreamTerminate(p)
       \/ \E p \in Procs : StopStreamDelete(p)
       \/ \E p \in Procs : StartStreamOrphans(p)
       \/ \E p \in Procs : StartStreamSpawn(p)
       \/ \E p \in Procs : StartStreamPoll(p)
       \/ \E p \in Procs : StartCameraStreamRegister(p)
       \/ \E p \in Procs : StopCameraStreamUnregister(p)
       \/ \E p \in ViewerProcs, c \in ViewedCameras, v \in ViewerIds : AllIdle /\ AddStreamViewer(p, c, v)
       \/ \E p \in Procs : AddViewerExpire(p)
       \/ \E p \in Procs : AddViewerCount(p)
       \/ \E p \in ViewerProcs, c \in ViewedCameras, v \in ViewerIds : AllIdle /\ StopCameraStreaming(p, c, v)
       \/ \E p \in Procs : RemoveViewerHdel(p)
       \/ \E p \in Procs : RemoveViewerCount(p)
       \/ \E p \in Procs : RemoveViewerSetex(p)
       \/ \E p \in Procs : ShouldStopCount(p)
       \/ \E p \in Procs : ShouldStopClear(p)
       \/ \E p \in Procs : ShouldStopGet(p)
       \/ \E p \in Procs : ShouldStopDecide(p)
       \/ \E p \in Procs : StopCameraStreamingDecide(p)
       \/ \E p \in MonitorProcs : AllIdle /\ MonitorWake(p)
       \/ \E p \in Procs : MonitorScanDir(p)
       \/ \E p \in Procs : MonitorScanEnd(p)
       \/ \E p \in Procs : MonitorPick(p)
       \/ \E p \in Procs : MonitorViewerCount(p)
       \/ \E p \in Procs : MonitorViewerDecide(p)
       \/ \E p \in Procs, mem \in MemorySamples : MonitorRefresh(p, STREAM_MAX_CPU_PERCENT, mem)
       \/ \E p \in Procs : MonitorLoopEnd(p)
       \/ \E p \in Procs : MonitorSweep(p)
       \/ \E p \in Procs : ForceRestartCleanup(p, TRUE)
       \/ \E w \in Workers, c \in Cameras : MarkerDeleteTask(w, c)
       \/ \E p \in Procs : Return(p)
       \/ \E i \in Pids : EncoderExit(i)
       \/ \E i \in Pids : EncoderWrite(i)
       \/ AllIdle /\ TickViewer
          ]_vars

NextMonitor ==
  \/ \E p \in StarterProcs, c \in ViewedCameras : nextPid = 1 /\ StartCameraStream(p, c, CameraUrl)
  \/ \E p \in Procs : StopStreamTerminate(p)
  \/ \E p \in Procs : StopStreamDelete(p)
  \/ \E p \in Procs : StartStreamOrphans(p)
  \/ \E p \in Procs : StartStreamSpawn(p)
  \/ \E p \in Procs : StartStreamPoll(p)
  \/ \E p \in Procs : StartCameraStreamRegister(p)
  \/ \E p \in Procs : StopCameraStreamUnregister(p)
  \/ \E p \in AdderProcs, c \in ViewedCameras, v \in MonitorViewerIds : AddStreamViewer(p, c, v)
  \/ \E p \in Procs : AddViewerExpire(p)
  \/ \E p \in Procs : AddViewerCount(p)
  \/ \E p \in Procs : ShouldStopCount(p)
  \/ \E p \in Procs : ShouldStopClear(p)
  \/ \E p \in Procs : ShouldStopGet(p)
  \/ \E p \in Procs : ShouldStopDecide(p)
  \/ \E p \in MonitorProcs : MonitorWake(p)
  \/ \E p \in Procs : MonitorScanDir(p)
  \/ \E p \in Procs : MonitorScanEnd(p)
  \/ \E p \in Procs : MonitorPick(p)
  \/ \E p \in Procs : MonitorViewerCount(p)
  \/ \E p \in Procs : MonitorViewerDecide(p)
  \/ \E p \in Procs, mem \in MemorySamples : MonitorRefresh(p, STREAM_MAX_CPU_PERCENT, mem)
  \/ \E p \in Procs : MonitorLoopEnd(p)
  \/ \E p \in Procs : MonitorSweep(p)
  \/ \E p \in Procs : ForceRestartCleanup(p, TRUE)
  \/ \E w \in Workers, c \in Cameras : MarkerDeleteTask(w, c)
  \/ \E p \in Procs : Return(p)
  \/ \E i \in Pids : EncoderExit(i)
  \/ \E i \in Pids : EncoderWrite(i)
  \/ TickMonitor

SpecMonitor == Init /\ [][NextMonitor]_vars

AssignProcs == {<<1, 1>>, <<2, 1>>}
ToggledUsers == {2}

NextAssign ==
  \/ \E p \in AssignProcs, a \in Accounts : calls < AssignMaxCalls /\ AutoAssignPending(p, a)
  \/ \E p \in AssignProcs, a \in Accounts : calls < AssignMaxCalls /\ IngestionAssign(p, a)
  \/ \E p \in Procs : LockTry(p)
  \/ \E p \in Procs : AssignCheck(p)
  \/ \E p \in Procs : AssignSelect(p)
  \/ \E p \in Procs : AssignIncrement(p)
  \/ \E p \in Procs : AssignCommit(p)
  \/ \E p \in Procs : AssignMirror(p)
  \/ \E p \in Procs : LockExit(p)
  \/ \E p \in Procs : Return(p)
  \/ \E u \in ToggledUsers, flag \in BOOLEAN : SetReceiving(u, flag)
  \/ TickAssign

SpecAssign == Init /\ [][NextAssign]_vars

ClaimProcs == {<<1, 1>>, <<2, 1>>}
ClaimingUsers == {3}
ClaimAccounts == {1}
ClaimMaxCounter == 1

NextClaim ==
  \/ \E p \in ClaimProcs, a \in ClaimAccounts :
       calls < ClaimMaxCounter /\ AutoAssignPending(p, a)
  \/ \E p \in ClaimProcs, a \in ClaimAccounts :
       counter["escalate_assignment_counter"] < ClaimMaxCounter /\ AutoAssignEscalated(p, a)
  \/ \E p \in Procs : LockTry(p)
  \/ \E p \in Procs : AssignCheck(p)
  \/ \E p \in Procs : AssignSelect(p)
  \/ \E p \in Procs : AssignIncrement(p)
  \/ \E p \in Procs : AssignCommit(p)
  \/ \E p \in Procs : AssignMirror(p)
  \/ \E p \in Procs : LockExit(p)
  \/ \E p \in ClaimProcs, a \in ClaimAccounts, u \in ClaimingUsers : ClaimAccount(p, a, u)
  \/ \E p \in Procs : ClaimAccountInsert(p)
  \/ \E a \in ClaimAccounts : EscalateEvent(a)
  \/ \E p \in Procs : Return(p)
  \/ TickClaim

SpecClaim == Init /\ [][NextClaim]_vars

SweepProcs == {<<1, 1>>}

NextRoundRobin ==
  \/ \E p \in SweepProcs, a \in Accounts : AutoAssignPending(p, a)
  \/ \E p \in SweepProcs, a \in Accounts : IngestionAssign(p, a)
  \/ \E p \in Procs : LockTry(p)
  \/ \E p \in Procs : AssignCheck(p)
  \/ \E p \in Procs : AssignSelect(p)
  \/ \E p \in Procs : AssignIncrement(p)
  \/ \E p \in Procs : AssignCommit(p)
  \/ \E p \in Procs : AssignMirror(p)
  \/ \E p \in Procs : LockExit(p)
  \/ \E p \in Procs : Return(p)

SpecRoundRobin == Init /\ [][NextRoundRobin]_vars

NextEscalation ==
  \/ \E a \in Accounts, u \in EscalateOps : ReleaseAccount(a, u)
  \/ \E a \in Accounts : EscalateEvent(a)
  \/ \E p \in SweepProcs, a \in Accounts : AutoAssignEscalated(p, a)
  \/ \E p \in Procs : LockTry(p)
  \/ \E p \in Procs : AssignCheck(p)
  \/ \E p \in Procs : AssignSelect(p)
  \/ \E p \in Procs : AssignIncrement(p)
  \/ \E p \in Procs : AssignCommit(p)
  \/ \E p \in Procs : AssignMirror(p)
  \/ \E p \in Procs : LockExit(p)
  \/ \E p \in Procs : Return(p)
  \/ TickDispatch

SpecEscalation == Init /\ [][NextEscalation]_vars

\* ------------------------------------------------------------------ claims
\* The callers inside a scope of key k that yielded acquired=True.
Holders(k) == {p \in Procs : pc[p] = "body" /\ acquired[p] /\ lockKey[p] = k}

\* C1: for every lock key, at most one distributed_lock scope at a time has
\* yielded acquired=True and not yet exited.
C1_MutualExclusion == \A k \in LockKeys : Cardinality(Holders(k)) <= 1

\* C2: in one worker at most one live encoder process spawned by start_stream
\* exists per camera at any instant, also under concurrent start calls.
C2_OneEncoderPerCamera == \A w \in Workers, c \in Cameras : Cardinality(LiveEncoders(w, c)) <= 1

\* C3: a start call made while the worker holds a live process for the
\* camera returns True with that same process still running as the handle.
C3_StartKeepsLiveHandle ==
  \A p \in Procs :
    (pc[p] = "done" /\ fn[p] = "start_camera_stream" /\ preHandle[p] # NoPid /\ ret[p] = "True")
      => (active_streams[WorkerOf(p)][camera_id[p]] = preHandle[p] /\ preHandle[p] \in procAlive)

\* stop_camera_stream, called by the monitor's viewer check or by the
\* stop-stream endpoint, terminates a running encoder in this step.
ViewerDrivenStop(p) ==
  /\ pc[p] = "stop_terminate"
  /\ pc'[p] = "stop_delete"
  /\ InExecutor(p)
  /\ fn[p] \in {"stream_monitor_task", "stop_camera_streaming"}
  /\ active_streams[WorkerOf(p)][camera_id[p]] \in procAlive

\* C4: whenever the viewer-driven stop path stops a camera's encoder, the
\* camera's viewer set is empty at that moment (and should_stop_stream had
\* found the grace deadline elapsed), also when add_stream_viewer runs on
\* another worker between should_stop_stream and stop_camera_stream.
C4_StopOnlyWhenUnwatched ==
  [][\A p \in Procs : ViewerDrivenStop(p) => (viewers[camera_id[p]] = {} /\ shouldStop[p])]_vars

\* should_stop_stream returns True to caller p in this step.
ReturnsShouldStop(p) ==
  /\ pc[p] = "should_decide"
  /\ pc'[p] # "should_decide"
  /\ shouldStop'[p]

\* C5: once a remove_stream_viewer has left a camera with zero viewers, no
\* should_stop_stream call for it returns True before 30 s have passed since
\* that remove.
C5_GraceAfterRemove ==
  [][\A p \in Procs :
       (ReturnsShouldStop(p) /\ removedAt[camera_id[p]] # NoTime)
         => now >= removedAt[camera_id[p]] + GRACE_PERIOD]_vars

\* C6: assign_event_to_operator calls for one account, repeated or concurrent
\* on any workers, leave at most one active AccountClaim of the account, and
\* every call that returns an operator returns the user of the account's row.
C6_OneClaimOneOwner ==
  /\ \A a \in Accounts : Cardinality({r \in ActiveClaims : r.account = a}) <= 1
  /\ \A p \in Procs :
       (pc[p] = "done" /\ fn[p] = "assign_event_to_operator" /\ ret[p] = "user")
         => /\ \E r \in claims : r.account = account_id[p] /\ r.user = assigned[p]
            /\ \A r \in claims : r.account = account_id[p] => r.user = assigned[p]

\* Two calls for one account have returned an operator.
C6_Witness ==
  \E p, q \in Procs :
    /\ p # q
    /\ pc[p] = "done" /\ pc[q] = "done"
    /\ fn[p] = "assign_event_to_operator" /\ fn[q] = "assign_event_to_operator"
    /\ ret[p] = "user" /\ ret[q] = "user"
    /\ account_id[p] = account_id[q]

\* C7: for one account, of assign_event_to_operator,
\* assign_escalated_event_to_escalate_user and claim_account at most one
\* creates a row and the others observe it: no second insert for the account
\* is attempted while a row of it exists.
C7_NoSecondInsert ==
  /\ \A a \in Accounts : Cardinality(RowsOf(a)) <= 1
  /\ rejected = {}

\* C8: no operator holds two active claims created by auto-assignment, also
\* when assign calls for different accounts run concurrently.
C8_OneClaimPerOperator ==
  \A u \in Operators : Cardinality({r \in ActiveClaims : r.user = u}) <= 1

RegularCount == Cardinality(RegularOps)

ThreeRoutes(a) ==
  /\ Len(history) = 3
  /\ \A i \in 1..3 : history[i].account = a /\ history[i].n = 3 /\ history[i].user # 0

C11_ReleaseOnlyOwnLock ==
  [][\A k \in LockKeys :
       (locks[k] # NoEntry /\ locks'[k] = NoEntry /\ now' = now)
         => \E p \in Procs : lockKey[p] = k /\ pc'[p] # pc[p] /\ lockOwner[k] = p]_vars

\* C12: a key never outlives its hold TTL of LOCK_TIMEOUT seconds, so when a
\* holder crashed without releasing, an acquisition of the same key that
\* another caller makes once that TTL is over succeeds.
C12_CrashedLockExpires ==
  [][/\ \A k \in LockKeys :
          locks[k] # NoEntry => (now < locks[k].exp /\ locks[k].exp <= now + LOCK_TIMEOUT)
     /\ \A q \in Procs, k \in LockKeys :
          ( /\ pc[q] = "acquire" /\ lockKey[q] = k /\ pc'[q] = "body"
            /\ crashExp[k] # NoTime /\ now >= crashExp[k]
            /\ lockOwner[k] \in {NoProc, DeadProc} ) => acquired'[q]]_vars

\* A caller holds a key that a crashed holder had left behind.
C12_Witness ==
  \E q \in Procs :
    /\ pc[q] = "body" /\ acquired[q]
    /\ crashExp[lockKey[q]] # NoTime /\ now >= crashExp[lockKey[q]]
    /\ lockOwner[lockKey[q]] = q

\* C13: once the claim of an account has expired the account is unclaimed
\* again: an assign call that finds no unexpired claim of the account and
\* has selected an eligible operator creates the new claim.  Its insert is
\* refused only when an unexpired claim of the account is in the table.
C13_ExpiredClaimReassigned ==
  [][\A p \in Procs :
       (pc[p] = "commit" /\ pc'[p] # "commit")
         => (pc'[p] = "mirror" \/ \E r \in ActiveClaims : r.account = account_id[p])]_vars

\* C14: stop_stream for a camera that has no handle in this worker returns
\* False and changes nothing: handles, update times, encoder processes,
\* files and the stream markers stay as they were.  This is also what a
\* second stop finds after a first one removed the handle.
C14_StopWithoutHandle ==
  [][\A p \in Procs :
       ( /\ pc[p] = "stop_terminate" /\ pc'[p] # pc[p]
         /\ active_streams[WorkerOf(p)][camera_id[p]] = NoPid )
         => (ret'[p] = "False" /\ pc'[p] = Head(stack[p]) /\ streamVars' = streamVars)]_vars

\* stop_stream has returned False to stop_camera_stream without having found
\* a handle, for a camera whose earlier encoder of this worker is gone.
C14_Witness ==
  \E p \in Procs :
    /\ pc[p] = "scs_unregister" /\ ret[p] = "False" /\ process[p] = NoPid
    /\ active_streams[WorkerOf(p)][camera_id[p]] = NoPid
    /\ \E i \in Pids : /\ i < nextPid /\ i \notin procAlive
                       /\ procCam[i] = camera_id[p] /\ procWorker[i] = WorkerOf(p)

\* C15: when stop_stream returns, the worker holds no handle of the camera
\* and the camera's directory holds neither playlist nor segments, whether
\* or not the call found a handle.
C15_StopLeavesNothing ==
  [][\A p \in Procs :
       ( /\ pc[p] \in {"stop_terminate", "stop_delete"}
         /\ pc'[p] \notin {"stop_terminate", "stop_delete"} )
         => /\ active_streams'[WorkerOf(p)][camera_id[p]] = NoPid
            /\ playlistMtime'[camera_id[p]] = NoTime
            /\ segmentMtime'[camera_id[p]] = NoTime]_vars

\* C16: when the store cannot be reached (no client was configured, or the
\* SET call fails) a distributed_lock scope is entered with acquired = False
\* and no exception is raised.
C16_UnreachableYieldsFalse ==
  [][\A p \in Procs :
       (pc[p] = "acquire" /\ store # "up" /\ pc'[p] # "acquire")
         => (pc'[p] = "body" /\ ~acquired'[p] /\ ret'[p] # "raised")]_vars

\* C17: while the store cannot be reached, add_stream_viewer and
\* remove_stream_viewer return the number of distinct viewers of the camera
\* that are registered through this worker.
C17_DegradedCounts ==
  [][\A p \in Procs :
       ( /\ store # "up"
         /\ \/ pc[p] = "idle" /\ fn'[p] = "add_stream_viewer" /\ pc'[p] = "done"
            \/ pc[p] = "rm_hdel" /\ pc'[p] = "should_count" )
         => viewer_count'[p] = Cardinality(registered'[WorkerOf(p)][camera_id'[p]])]_vars

\* C18: when add_stream_viewer(c, v) returns, the store holds no pending
\* stop deadline stream_stop_at:c.
C18_AddClearsDeadline ==
  [][\A p \in Procs :
       (fn'[p] = "add_stream_viewer" /\ pc[p] # "done" /\ pc'[p] = "done")
         => stopAt'[camera_id'[p]] = NoEntry]_vars

\* C19: should_stop_stream(c) returns True only when c has no viewer and a
\* deadline exists that now has reached; with no viewer and no deadline it
\* creates the deadline now + 30 s and returns False; with a viewer it
\* returns False.
C19_ShouldStopDecision ==
  [][\A p \in Procs :
       LET c == camera_id[p]
       IN ( /\ pc[p] \in {"should_count", "should_clear", "should_get", "should_decide"}
            /\ pc'[p] \in {"stop_decide", "mon_decide"} )
            => /\ shouldStop'[p] =>
                    (viewers[c] = {} /\ stopAt[c] # NoEntry /\ now >= stopAt[c].val)
               /\ (viewers[c] = {} /\ stopAt[c] = NoEntry) =>
                    (~shouldStop'[p] /\ stopAt'[c] # NoEntry /\ stopAt'[c].val = now + 30)
               /\ viewers[c] # {} => ~shouldStop'[p]]_vars

\* should_stop_stream has returned True at or after a deadline.
C19_Witness ==
  \E p \in Procs :
    /\ pc[p] \in {"stop_decide", "mon_decide"} /\ shouldStop[p]
    /\ viewers[camera_id[p]] = {} /\ stopAt[camera_id[p]] = NoEntry
    /\ now >= GRACE_PERIOD

\* C20: remove_stream_viewer(c, v) returns the number of viewers that remain
\* for c; when that number is 0 it leaves the deadline now + 30 s in
\* stream_stop_at:c, and when it is not it leaves stream_stop_at:c as it was.
C20_RemoveSetsDeadline ==
  [][\A p \in Procs :
       LET c == camera_id[p]
       IN ( /\ pc[p] \in {"rm_hdel", "rm_hlen", "rm_setex"}
            /\ pc'[p] = "should_count" )
            => /\ viewer_count'[p] = Cardinality(viewers'[c])
               /\ viewers'[c] = {} => (stopAt'[c] # NoEntry /\ stopAt'[c].val = now + 30)
               /\ viewers'[c] # {} => stopAt'[c] = stopAt[c]]_vars

\* remove_stream_viewer has removed the last viewer and returned 0 with the
\* deadline in place.
C20_Witness ==
  \E p \in Procs :
    /\ pc[p] = "should_count" /\ viewer_count[p] = 0 /\ hdelRemoved[p]
    /\ stopAt[camera_id[p]].val = now + GRACE_PERIOD

\* C21: start_stream with a URL that validate_rtsp_url rejects (no scheme of
\* rtsp, rtmp, http, https, no host, or a shell metacharacter) returns False
\* at once; neither that step nor the rest of the call spawns a process or
\* changes a handle, an update time, a file or a marker.
C21_RejectedUrlNoEffect ==
  [][\A p \in Procs :
       LET bad(u) == u.scheme \notin {"rtsp", "rtmp", "http", "https"} \/ ~u.netloc \/ u.meta
       IN /\ (pc[p] = "idle" /\ fn'[p] = "start_camera_stream" /\ bad(rtsp_url'[p]))
               => (ret'[p] = "False" /\ pc'[p] = "scs_register" /\ streamVars' = streamVars)
          /\ (pc[p] = "scs_register" /\ bad(rtsp_url[p]) /\ pc'[p] # pc[p])
               => (ret'[p] = "False" /\ streamVars' = streamVars)]_vars

\* A start with a rejected URL has returned False while the worker holds a
\* live handle of the camera and its playlist is on disk.
C21_Witness ==
  \E p \in Procs :
    /\ pc[p] = "done" /\ fn[p] = "start_camera_stream" /\ ret[p] = "False"
    /\ rtsp_url[p] \in Urls \ {CameraUrl}
    /\ LiveHandle(WorkerOf(p), camera_id[p])
    /\ playlistMtime[camera_id[p]] # NoTime

\* C22: is_stream_ready(c) returns True on any worker exactly when the
\* playlist of c exists in the shared directory, whichever worker holds the
\* encoder's handle and whatever the store holds.
C22_ReadyIffPlaylist ==
  [][\A p \in Procs :
       (pc[p] = "idle" /\ fn'[p] = "is_stream_ready")
         => (ret'[p] = "True" <=> playlistMtime[camera_id'[p]] # NoTime)]_vars

\* Worker 2 has been told the stream is ready while the encoder's handle is
\* in worker 1 and worker 2 holds none.
C22_Witness ==
  \E p \in Procs :
    /\ WorkerOf(p) = 2 /\ pc[p] = "done" /\ fn[p] = "is_stream_ready" /\ ret[p] = "True"
    /\ LiveHandle(1, camera_id[p])
    /\ active_streams[2][camera_id[p]] = NoPid

\* C23: an assign call whose lock scope yields acquired = False returns None
\* from the head of the body and leaves the scope without touching the
\* AccountClaim rows, the round-robin counters, the claim mirror or the lock
\* keys; it never reaches the insert, the mirror or the broadcast.
C23_NotAcquiredNoEffect ==
  [][\A p \in Procs :
       /\ (IsAssign(p) /\ pc[p] = "body" /\ ~acquired[p] /\ pc'[p] # pc[p])
            => (ret'[p] = "None" /\ pc'[p] = "exit" /\ dispatchStore' = dispatchStore)
       /\ (IsAssign(p) /\ pc[p] = "exit" /\ ~acquired[p] /\ pc'[p] # pc[p])
            => /\ pc'[p] = "done" /\ ret'[p] = ret[p] /\ assigned'[p] = 0
               /\ dispatchStore' = dispatchStore /\ locks' = locks]_vars

\* An assign call waited out blocking_timeout while another caller held the
\* key of its account, and is leaving with None.
C23_Witness ==
  \E p \in Procs :
    /\ IsAssign(p) /\ pc[p] = "exit" /\ ~acquired[p] /\ ret[p] = "None"
    /\ locks[lockKey[p]] # NoEntry

\* Assign calls of two workers for one account while the coordination store
\* may become unreachable and reachable again at any moment.
SpecRelease ==
  Init /\ [][
       \/ \E s \in StoreStates : StoreSetting(s)
       \/ \E p \in AssignProcs : calls < AssignMaxCalls /\ AutoAssignPending(p, 1)
       \/ \E p \in Procs : LockTry(p)
       \/ \E p \in Procs : AssignCheck(p)
       \/ \E p \in Procs : AssignSelect(p)
       \/ \E p \in Procs : AssignIncrement(p)
       \/ \E p \in Procs : AssignCommit(p)
       \/ \E p \in Procs : AssignMirror(p)
       \/ \E p \in Procs : LockExit(p)
       \/ \E p \in Procs : Return(p)
       \/ TickAssign
          ]_vars

\* C24: when an assign call that acquired its lock leaves the scope, by
\* return or by exception, no key written by that caller is left in the
\* store, so the key does not have to run out its TTL before the next assign
\* of the account can take it.
C24_ScopeExitReleases ==
  [][\A p \in Procs :
       (IsAssign(p) /\ pc[p] = "exit" /\ acquired[p] /\ pc'[p] # pc[p])
         => \A k \in LockKeys : ~(locks'[k] # NoEntry /\ lockOwner'[k] = p)]_vars

\* Worker 1 serves the start requests for the camera; worker 2 runs its
\* stream monitor.
SpecFleet ==
  Init /\ [][
       \/ \E c \in ViewedCameras : nextPid = 1 /\ StartCameraStream(<<1, 2>>, c, CameraUrl)
       \/ \E p \in Procs : StopStreamTerminate(p)
       \/ \E p \in Procs : StopStreamDelete(p)
       \/ \E p \in Procs : StartStreamOrphans(p)
       \/ \E p \in Procs : StartStreamSpawn(p)
       \/ \E p \in Procs : StartStreamPoll(p)
       \/ \E p \in Procs : StartCameraStreamRegister(p)
       \/ \E p \in Procs : ShouldStopCount(p)
       \/ \E p \in Procs : ShouldStopGet(p)
       \/ \E p \in Procs : ShouldStopDecide(p)
       \/ MonitorWake(<<2, 1>>)
       \/ \E p \in Procs : MonitorScanDir(p)
       \/ \E p \in Procs : MonitorScanEnd(p)
       \/ \E p \in Procs : MonitorPick(p)
       \/ \E p \in Procs : MonitorViewerCount(p)
       \/ \E p \in Procs : MonitorViewerDecide(p)
       \/ \E p \in Procs, cpu \in CpuSamples, mem \in MemorySamples : MonitorRefresh(p, cpu, mem)
       \/ \E p \in Procs : MonitorLoopEnd(p)
       \/ \E p \in Procs : MonitorSweep(p)
       \/ \E p \in Procs : ForceRestartCleanup(p, TRUE)
       \/ \E w \in Workers, c \in Cameras : MarkerDeleteTask(w, c)
       \/ \E p \in Procs : Return(p)
       \/ \E i \in Pids : EncoderExit(i)
       \/ \E i \in Pids : EncoderWrite(i)
       \/ TickMonitor
          ]_vars

\* C25: the orphan cleanup of a worker (the per-camera cleanup of
\* start_stream, the sweep of a monitor tick) terminates no encoder that is
\* the running process of a handle of another worker.
C25_CleanupSparesOtherWorkers ==
  [][\A p \in Procs :
       (pc[p] \in {"ss_orphans", "mon_sweep"} /\ pc'[p] # pc[p])
         => \A i \in procAlive \ procAlive' :
              ~\E w \in Workers \ {WorkerOf(p)}, c \in Cameras : active_streams[w][c] = i]_vars

\* The monitor's `await asyncio.sleep(STREAM_MONITOR_INTERVAL)` followed by
\* get_all_streams_stats(): the interval passes, during which a running
\* encoder may have written its segment and playlist, and the monitor wakes
\* up.  The loop runs for as long as the worker lives, so its clock has no
\* last instant: beyond IdleHorizon the interval passes by moving every
\* stored instant that far into the past (an mtime or start time keeps its
\* age up to the horizon, a key whose expiry is reached is gone).  No lock
\* or claim is held where this step is taken.
STREAM_MONITOR_INTERVAL == 30
IdleHorizon == 30
MonitorSleep(p) ==
  LET w == WorkerOf(p)
      d == STREAM_MONITOR_INTERVAL
      sh == IF now + d <= IdleHorizon THEN 0 ELSE d
      past(t) == IF t = NoTime THEN NoTime ELSE IF t > sh THEN t - sh ELSE 0
      due(e) == IF e = 0 \/ e <= now + d THEN 0 ELSE e - sh
      encoding == {c \in Cameras : \E i \in procAlive : procCam[i] = c}
  IN /\ pc[p] = "idle"
     /\ TaskNameOf(p) = MonitorTask
     /\ \A k \in LockKeys : locks[k] = NoEntry
     /\ claims = {}
     /\ now' = now + d - sh
     /\ \E wrote \in SUBSET encoding :
          /\ playlistMtime' = [c \in Cameras |->
                                 IF c \in wrote THEN now + d - sh ELSE past(playlistMtime[c])]
          /\ segmentMtime' = [c \in Cameras |->
                                IF c \in wrote THEN now + d - sh ELSE past(segmentMtime[c])]
     /\ stream_last_update' = [v \in Workers |-> [c \in Cameras |-> past(stream_last_update[v][c])]]
     /\ removedAt' = [c \in Cameras |-> past(removedAt[c])]
     /\ stopAt' = [c \in Cameras |->
                     IF stopAt[c] = NoEntry \/ stopAt[c].exp <= now + d
                       THEN NoEntry
                       ELSE [val |-> stopAt[c].val - sh, exp |-> stopAt[c].exp - sh]]
     /\ stopAtRead' = [q \in Procs |->
                         IF stopAtRead[q] = 0 THEN 0
                         ELSE IF stopAtRead[q] > sh THEN stopAtRead[q] - sh ELSE 1]
     /\ streamActive' = [c \in Cameras |-> due(streamActive[c])]
     /\ viewersExp' = [c \in Cameras |-> due(viewersExp[c])]
     /\ viewers' = [c \in Cameras |->
                      IF viewersExp[c] # 0 /\ viewersExp[c] <= now + d THEN {} ELSE viewers[c]]
     /\ UNCHANGED <<store, lockVars, stack, ret, camera_id, process, preHandle, rtsp_url,
                    active_streams, procVars, pendingDelete, viewer_id, viewer_count,
                    shouldStop, hdelRemoved, cpu_percent, memory_mb, registered, dispatchVars>>
     /\ fn' = [fn EXCEPT ![p] = "stream_monitor_task"]
     /\ all_stats' = [all_stats EXCEPT ![p] = [c \in Cameras |-> StreamStats(w, c)']]
     /\ monTodo' = [monTodo EXCEPT ![p] = {c \in Cameras : StreamStats(w, c)' = "absent"}]
     /\ pc' = [pc EXCEPT ![p] = "mon_scan"]

\* Worker 1 starts the camera once and runs its stream monitor; nobody ever
\* registers as a viewer; worker 2 serves stop-stream requests for the
\* camera (remove_stream_viewer, then should_stop_stream) as often as it
\* likes.  The handlers take no time next to the monitor's interval.
NextIdle ==
  \/ \E c \in ViewedCameras : nextPid = 1 /\ StartCameraStream(<<1, 2>>, c, CameraUrl)
  \/ \E p \in Procs : StopStreamTerminate(p)
  \/ \E p \in Procs : StopStreamDelete(p)
  \/ \E p \in Procs : StartStreamOrphans(p)
  \/ \E p \in Procs : StartStreamSpawn(p)
  \/ \E p \in Procs : StartStreamPoll(p)
  \/ \E p \in Procs : StartCameraStreamRegister(p)
  \/ \E p \in Procs : StopCameraStreamUnregister(p)
  \/ \E c \in ViewedCameras, v \in MonitorViewerIds : StopCameraStreaming(<<2, 1>>, c, v)
  \/ \E p \in Procs : RemoveViewerHdel(p)
  \/ \E p \in Procs : RemoveViewerCount(p)
  \/ \E p \in Procs : RemoveViewerSetex(p)
  \/ \E p \in Procs : ShouldStopCount(p)
  \/ \E p \in Procs : ShouldStopGet(p)
  \/ \E p \in Procs : ShouldStopDecide(p)
  \/ \E p \in Procs : StopCameraStreamingDecide(p)
  \/ MonitorSleep(<<1, 1>>)
  \/ \E p \in Procs : MonitorScanDir(p)
  \/ \E p \in Procs : MonitorScanEnd(p)
  \/ \E p \in Procs : MonitorPick(p)
  \/ \E p \in Procs : MonitorViewerCount(p)
  \/ \E p \in Procs : MonitorViewerDecide(p)
  \/ \E p \in Procs : MonitorRefresh(p, STREAM_MAX_CPU_PERCENT, STREAM_MAX_MEMORY_MB)
  \/ \E p \in Procs : MonitorLoopEnd(p)
  \/ \E p \in Procs : MonitorSweep(p)
  \/ \E p \in Procs : ForceRestartCleanup(p, TRUE)
  \/ \E w \in Workers, c \in Cameras : MarkerDeleteTask(w, c)
  \/ \E p \in Procs : Return(p)
  \/ \E i \in Pids : EncoderWrite(i)

\* The event loop runs every task that is ready, and the monitor loop never
\* ends.  Requests and encoder events are under no obligation.
SpecIdle ==
  /\ Init
  /\ [][NextIdle]_vars
  /\ WF_vars(MonitorSleep(<<1, 1>>))
  /\ \A p \in Procs :
       WF_vars(NextIdle /\ pc[p] # "idle" /\ <<pc[p], monTodo[p]>>' # <<pc[p], monTodo[p]>>)

\* C26: a camera that worker 1 tracks and that has no viewer, where nobody
\* registers as a viewer any more, is eventually not tracked by worker 1 any
\* longer, whatever stop-stream requests the other worker serves meanwhile.
C26_IdleStreamStopped ==
  \A c \in Cameras : (HasHandle(1, c) /\ viewers[c] = {}) ~> ~HasHandle(1, c)

\* Start requests for the camera reach both workers, and both run their
\* stream monitor, one iteration at a time.  The handlers and iterations take
\* no time next to the 30 s between iterations.
SpecRace ==
  Init /\ [][
       \/ \E p \in {<<1, 2>>, <<2, 2>>}, c \in ViewedCameras :
            nextPid = 1 /\ StartCameraStream(p, c, CameraUrl)
       \/ \E p \in Procs : StopStreamTerminate(p)
       \/ \E p \in Procs : StopStreamDelete(p)
       \/ \E p \in Procs : StartStreamOrphans(p)
       \/ \E p \in Procs : StartStreamSpawn(p)
       \/ \E p \in Procs : StartStreamPoll(p)
       \/ \E p \in Procs : StartCameraStreamRegister(p)
       \/ \E p \in Procs : StopCameraStreamUnregister(p)
       \/ \E p \in Procs : ShouldStopCount(p)
       \/ \E p \in Procs : ShouldStopGet(p)
       \/ \E p \in Procs : ShouldStopDecide(p)
       \/ pc[<<2, 1>>] = "idle" /\ MonitorWake(<<1, 1>>)
       \/ pc[<<1, 1>>] = "idle" /\ MonitorWake(<<2, 1>>)
       \/ \E p \in Procs : MonitorScanDir(p)
       \/ \E p \in Procs : MonitorScanEnd(p)
       \/ \E p \in Procs : MonitorPick(p)
       \/ \E p \in Procs : MonitorViewerCount(p)
       \/ \E p \in Procs : MonitorViewerDecide(p)
       \/ \E p \in Procs : MonitorRefresh(p, STREAM_MAX_CPU_PERCENT, STREAM_MAX_MEMORY_MB)
       \/ \E p \in Procs : MonitorLoopEnd(p)
       \/ \E p \in Procs : MonitorSweep(p)
       \/ \E p \in Procs : ForceRestartCleanup(p, TRUE)
       \/ \E w \in Workers, c \in Cameras : MarkerDeleteTask(w, c)
       \/ \E p \in Procs : Return(p)
       \/ \E i \in Pids : EncoderExit(i)
       \/ \E i \in Pids : EncoderWrite(i)
       \/ (\A p \in Procs : pc[p] = "idle") /\ TickMonitor
          ]_vars

\* C27: encoders of two workers for one camera do not outlast a monitor
\* tick: when a worker's tick has run to its end, at most one encoder per
\* camera is running.
C27_TickEndsDuplication ==
  [][\A p \in Procs :
       (pc[p] = "mon_sweep" /\ pc'[p] # pc[p])
         => \A c \in Cameras : Cardinality({i \in procAlive' : procCam[i] = c}) <= 1]_vars

\* A monitor tick is over; the encoder of its worker runs, and the encoder
\* the other worker spawned later for the same camera, still the other
\* worker's handle, does not.
C27_Witness ==
  \E p \in Procs, i \in Pids, j \in Pids :
    /\ pc[p] = "done" /\ fn[p] = "stream_monitor_task"
    /\ i < j /\ procCam[i] = procCam[j] /\ procWorker[i] = WorkerOf(p) /\ procWorker[j] # WorkerOf(p)
    /\ i \in procAlive /\ j \notin procAlive
    /\ active_streams[procWorker[i]][procCam[i]] = i
    /\ active_streams[procWorker[j]][procCam[j]] = j

\* C28: a monitor never has a freshly spawned encoder in hand for a camera
\* whose dead handle the monitor of its worker dropped earlier, in the same
\* tick or a previous one, unless a start of that camera was requested in
\* between.
C28_NoRestartAfterDeadDrop ==
  \A q \in Procs :
    (fn[q] = "stream_monitor_task" /\ pc[q] = "ss_poll")
      => camera_id[q] \notin deadDropped[WorkerOf(q)]

\* Start requests for the camera reach either worker at any time; worker 1
\* runs its stream monitor.  The handlers take no time next to the 30 s
\* between monitor iterations.
SpecHealth ==
  Init /\ [][
       \/ \E c \in ViewedCameras : nextPid = 1 /\ StartCameraStream(<<2, 2>>, c, CameraUrl)
       \/ \E c \in ViewedCameras : nextPid = 2 /\ StartCameraStream(<<1, 2>>, c, CameraUrl)
       \/ \E p \in Procs : StopStreamTerminate(p)
       \/ \E p \in Procs : StopStreamDelete(p)
       \/ \E p \in Procs : StartStreamOrphans(p)
       \/ \E p \in Procs : StartStreamSpawn(p)
       \/ \E p \in Procs : StartStreamPoll(p)
       \/ \E p \in Procs : StartCameraStreamRegister(p)
       \/ \E p \in Procs : StopCameraStreamUnregister(p)
       \/ \E p \in Procs : ShouldStopCount(p)
       \/ \E p \in Procs : ShouldStopGet(p)
       \/ \E p \in Procs : ShouldStopDecide(p)
       \/ MonitorWake(<<1, 1>>)
       \/ \E p \in Procs : MonitorScanDir(p)
       \/ \E p \in Procs : MonitorScanEnd(p)
       \/ \E p \in Procs : MonitorPick(p)
       \/ \E p \in Procs : MonitorViewerCount(p)
       \/ \E p \in Procs : MonitorViewerDecide(p)
       \/ \E p \in Procs : MonitorRefresh(p, STREAM_MAX_CPU_PERCENT, STREAM_MAX_MEMORY_MB)
       \/ \E p \in Procs : MonitorLoopEnd(p)
       \/ \E p \in Procs : MonitorSweep(p)
       \/ \E p \in Procs : ForceRestartCleanup(p, TRUE)
       \/ \E w \in Workers, c \in Cameras : MarkerDeleteTask(w, c)
       \/ \E p \in Procs : Return(p)
       \/ \E i \in Pids : EncoderWrite(i)
       \/ (\A p \in Procs : pc[p] = "idle") /\ TickMonitor
          ]_vars

C30_ExcessUsageRestarts ==
  [][\A p \in Procs :
       (pc[p] = "mon_refresh" /\ pc'[p] # pc[p]
          /\ (cpu_percent'[p] > STREAM_MAX_CPU_PERCENT \/ memory_mb'[p] > STREAM_MAX_MEMORY_MB))
         => \/ pc'[p] = "fr_cleanup"
            \/ pc'[p] = "stop_terminate" /\ Head(stack'[p]) = "fr_cleanup"]_vars

\* ------------------------------------------------- failures inside a tick
\* db.query(Camera) raises while the stale-directory scan handles a stale
\* directory: nothing inside the scan catches it, the handler of the whole
\* iteration logs it and sleeps 5 s, and the next iteration begins.
MonitorScanRaise(p) ==
  /\ pc[p] = "mon_scan"
  /\ \E c \in monTodo[p] :
       /\ playlistMtime[c] # NoTime /\ now - playlistMtime[c] > STALE_PLAYLIST_AGE
       /\ camera_id' = [camera_id EXCEPT ![p] = c]
  /\ monTodo' = [monTodo EXCEPT ![p] = {}]
  /\ pc' = [pc EXCEPT ![p] = "done"]
  /\ UNCHANGED <<now, store, lockVars, fn, stack, ret, process, preHandle, rtsp_url, streamVars,
                 viewerStore, viewerLocals, all_stats, cpu_percent, memory_mb, removedAt,
                 registered, dispatchVars>>

\* db.query(Camera) raises while the per-camera loop handles an unhealthy
\* stream: `except Exception` of the loop body logs it and the loop goes on.
MonitorPickRaise(p) ==
  /\ pc[p] = "mon_pick"
  /\ \E c \in monTodo[p] :
       /\ all_stats[p][c] = "unhealthy"
       /\ monTodo' = [monTodo EXCEPT ![p] = @ \ {c}]
       /\ camera_id' = [camera_id EXCEPT ![p] = c]
  /\ UNCHANGED <<now, store, lockVars, callVars, process, preHandle, rtsp_url, streamVars,
                 viewerStore, viewerLocals, all_stats, cpu_percent, memory_mb, removedAt,
                 registered, dispatchVars>>

\* Worker 1 streams camera 1 and camera 2 (whose row has lost its URL since);
\* its monitor ticks while the database can fail under it.
SpecTick ==
  Init /\ [][
       \/ \E c \in Cameras : nextPid = c /\ AllIdle /\ StartCameraStream(<<1, 2>>, c, CameraUrl)
       \/ \E p \in Procs : StopStreamTerminate(p)
       \/ \E p \in Procs : StopStreamDelete(p)
       \/ \E p \in Procs : StartStreamOrphans(p)
       \/ \E p \in Procs : StartStreamSpawn(p)
       \/ \E p \in Procs : StartStreamPoll(p)
       \/ \E p \in Procs : StartCameraStreamRegister(p)
       \/ \E p \in Procs : StopCameraStreamUnregister(p)
       \/ \E p \in Procs : ShouldStopCount(p)
       \/ \E p \in Procs : ShouldStopGet(p)
       \/ \E p \in Procs : ShouldStopDecide(p)
       \/ AllIdle /\ MonitorWake(<<1, 1>>)
       \/ \E p \in Procs : MonitorScanDir(p)
       \/ \E p \in Procs : MonitorScanRaise(p)
       \/ \E p \in Procs : MonitorScanEnd(p)
       \/ \E p \in Procs : MonitorPick(p)
       \/ \E p \in Procs : MonitorPickRaise(p)
       \/ \E p \in Procs : MonitorViewerCount(p)
       \/ \E p \in Procs : MonitorViewerDecide(p)
       \/ \E p \in Procs : MonitorRefresh(p, STREAM_MAX_CPU_PERCENT, STREAM_MAX_MEMORY_MB)
       \/ \E p \in Procs : MonitorLoopEnd(p)
       \/ \E p \in Procs : MonitorSweep(p)
       \/ \E p \in Procs : ForceRestartCleanup(p, TRUE)
       \/ \E w \in Workers, c \in Cameras : MarkerDeleteTask(w, c)
       \/ \E p \in Procs : Return(p)
       \/ \E i \in Pids : EncoderExit(i)
       \/ \E i \in Pids : EncoderWrite(i)
       \/ AllIdle /\ TickMonitor
          ]_vars

\* C31: a monitor tick that found tracked streams ends only through the
\* orphan sweep that follows the per-camera loop, that is after every
\* directory was scanned and every tracked camera was handled, whatever
\* exception a step raised on the way.
C31_TickHandlesEveryCamera ==
  [][\A p \in Procs :
       (/\ fn[p] = "stream_monitor_task" /\ pc[p] # "done" /\ pc'[p] = "done"
        /\ \E c \in Cameras : all_stats[p][c] # "absent")
         => pc[p] = "mon_sweep"]_vars

\* C32: the marker stream_active:{camera_id} never disappears from the
\* store, by deletion or by expiry, while some worker tracks a healthy
\* encoder for the camera.
C32_MarkerWhileHealthy ==
  [][\A c \in Cameras :
       (streamActive[c] # 0 /\ streamActive'[c] = 0)
         => ~\E w \in Workers : LiveHandle(w, c)' /\ IsStreamHealthy(w, c)']_vars

\* Worker 1 starts the camera's stream; DELETE /api/cameras/{camera_id}
\* reaches worker 2, or worker 1, and calls stop_camera_stream.
SpecStop ==
  Init /\ [][
       \/ \E c \in ViewedCameras : StartCameraStream(<<1, 2>>, c, CameraUrl)
       \/ \E p \in Procs : StopStreamTerminate(p)
       \/ \E p \in Procs : StopStreamDelete(p)
       \/ \E p \in Procs : StartStreamOrphans(p)
       \/ \E p \in Procs : StartStreamSpawn(p)
       \/ \E p \in Procs : StartStreamPoll(p)
       \/ \E p \in Procs : StartCameraStreamRegister(p)
       \/ \E p \in {<<1, 1>>, <<2, 2>>}, c \in ViewedCameras : StopCameraStream(p, c)
       \/ \E p \in Procs : StopCameraStreamUnregister(p)
       \/ \E p \in Procs : Return(p)
       \/ \E i \in Pids : EncoderExit(i)
       \/ \E i \in Pids : EncoderWrite(i)
          ]_vars

\* C33: every step of a stop_camera_stream call on a worker that has no
\* handle for the camera, while another worker tracks a running encoder for
\* it, leaves the encoder processes, the handles and the marker
\* stream_active:{camera_id} as they were, and the call returns False.
C33_ForeignStopNoEffect ==
  [][\A p \in Procs :
       LET w == WorkerOf(p)
           c == camera_id[p]
       IN (/\ fn[p] = "stop_camera_stream" /\ pc[p] \in {"stop_terminate", "scs_unregister"}
           /\ pc'[p] # pc[p]
           /\ ~HasHandle(w, c)
           /\ pc[p] = "scs_unregister" => ret[p] = "False"
           /\ \E v \in Workers \ {w} : LiveHandle(v, c))
            => /\ ret'[p] = "False"
               /\ procAlive' = procAlive
               /\ active_streams' = active_streams
               /\ streamActive'[c] = streamActive[c]]_vars

\* ------------------------------------------------ readers of the handle
\* is_stream_active(camera_id) finds the handle's process ended: the handle
\* and the start time are dropped.
IsStreamActive(w, c) ==
  /\ HasHandle(w, c) /\ ~LiveHandle(w, c)
  /\ active_streams' = [active_streams EXCEPT ![w][c] = NoPid]
  /\ stream_last_update' = [stream_last_update EXCEPT ![w][c] = NoTime]
  /\ UNCHANGED <<now, store, lockVars, callVars, streamLocals, procVars, fileVars, streamActive,
                 pendingDelete, viewerVars, dispatchVars>>

\* get_stream_url(camera_id) finds the handle's process ended: only the
\* handle is dropped.
GetStreamUrl(w, c) ==
  /\ HasHandle(w, c) /\ ~LiveHandle(w, c)
  /\ active_streams' = [active_streams EXCEPT ![w][c] = NoPid]
  /\ UNCHANGED <<now, store, lockVars, callVars, streamLocals, stream_last_update, procVars,
                 fileVars, streamActive, pendingDelete, viewerVars, dispatchVars>>

\* Worker 1 starts the camera's stream while the status endpoint, served in
\* other threads of the worker, asks whether it is active and for its URL.
SpecWindow ==
  Init /\ [][
       \/ \E c \in ViewedCameras : StartCameraStream(<<1, 2>>, c, CameraUrl)
       \/ \E p \in Procs : StopStreamTerminate(p)
       \/ \E p \in Procs : StopStreamDelete(p)
       \/ \E p \in Procs : StartStreamOrphans(p)
       \/ \E p \in Procs : StartStreamSpawn(p)
       \/ \E p \in Procs : StartStreamPoll(p)
       \/ \E p \in Procs : StartCameraStreamRegister(p)
       \/ \E c \in ViewedCameras : IsStreamActive(1, c)
       \/ \E c \in ViewedCameras : GetStreamUrl(1, c)
       \/ \E p \in Procs : Return(p)
       \/ \E i \in Pids : EncoderExit(i)
       \/ \E i \in Pids : EncoderWrite(i)
       \/ AllIdle /\ TickMonitor
          ]_vars

\* C34: when start_stream polls its process after the 0.5 s wait and finds
\* it ended, it returns False and the worker has neither a handle nor a
\* start time for the camera.
C34_ImmediateFailureLeavesNothing ==
  [][\A p \in Procs :
       LET w == WorkerOf(p)
           c == camera_id[p]
       IN (pc[p] = "ss_poll" /\ pc'[p] # pc[p] /\ process[p] \notin procAlive)
            => /\ ret'[p] = "False"
               /\ active_streams'[w][c] = NoPid
               /\ stream_last_update'[w][c] = NoTime]_vars

\* C35: when a force_restart_stream call of the monitor returns True, the
\* worker has a handle for the camera and it is the process that call
\* spawned or a later one; when the call returns False the worker has no
\* handle for the camera.
C35_ForceRestartOutcome ==
  [][\A p \in Procs :
       LET w == WorkerOf(p)
           c == camera_id[p]
       IN (/\ fn[p] = "stream_monitor_task" /\ pc[p] \in {"ss_poll", "fr_cleanup"}
           /\ pc'[p] \in {"mon_scan", "mon_pick"})
            => /\ ret'[p] = "True" => /\ active_streams'[w][c] # NoPid
                                       /\ active_streams'[w][c] >= process[p]
               /\ ret'[p] = "False" => active_streams'[w][c] = NoPid]_vars

\* ------------------------------------------------- contended acquisition
\* One second passes while the waiters of distributed_lock keep retrying
\* every 0.1 s: before time moves on, every waiter whose key is absent has
\* made its next SET NX.
TickRetry ==
  /\ \A p \in Procs : pc[p] = "acquire" => ~SetNXOk(locks, lockKey[p])
  /\ now + 1 <= LockMaxTime
  /\ now' = now + 1
  /\ locks' = Purge(locks, now + 1)
  /\ lockOwner' = PurgeOwners(now + 1)
  /\ UNCHANGED <<store, lockKey, startTime, acquired, crashExp, callVars, streamLocals,
                 streamVars, viewerVars, dispatchVars>>

\* Three tasks contending for one lock key.
SpecContend ==
  Init /\ [][
       \/ \E p \in LockProcs : LockOnlyCall(p, <<"assign_event", 1>>)
       \/ \E p \in Procs : LockTry(p)
       \/ \E p \in Procs : LockExit(p)
       \/ TickRetry
          ]_vars

\* The time at which the value now stored under key k was set.
SetAt(k) == locks[k].exp - LOCK_TIMEOUT

\* C36: an acquisition attempt that yields acquired=False did not see its
\* key change hands inside its blocking_timeout window: had the holder
\* released the key (or the key expired) before blocking_timeout, the
\* attempt would have acquired it.
C36_AcquiresAfterRelease ==
  [][\A p \in Procs :
       LET k == lockKey[p]
       IN (/\ pc[p] = "acquire" /\ pc'[p] = "body" /\ ~acquired'[p]
           /\ store = "up")
            => ~(/\ locks[k] # NoEntry
                 /\ startTime[p] < SetAt(k)
                 /\ SetAt(k) < startTime[p] + BLOCKING_TIMEOUT)]_vars

\* ------------------------------------------------- registration lifetime
\* Viewer 1 registers at time 0 only and is never removed; viewer 2 keeps
\* registering.  Time passes between calls, half a registration TTL at a
\* time.
SpecRegistration ==
  Init /\ [][
       \/ \E p \in ViewerProcs, c \in ViewedCameras : now = 0 /\ AddStreamViewer(p, c, 1)
       \/ \E p \in ViewerProcs, c \in ViewedCameras : AddStreamViewer(p, c, 2)
       \/ \E p \in Procs : AddViewerExpire(p)
       \/ \E p \in Procs : AddViewerCount(p)
       \/ \E p \in Procs : Return(p)
       \/ AllIdle /\ Tick({VIEWERS_TTL \div 2}, RegistrationMaxTime)
          ]_vars

\* C37: once the registration TTL has passed since viewer 1's only
\* add_stream_viewer (at time 0), viewer 1 no longer counts toward the
\* camera's viewer count, whatever other viewers do.
C37_StaleViewerExpires ==
  \A c \in ViewedCameras : now >= VIEWERS_TTL => 1 \notin viewers[c]

\* C38: when a monitor tick ends, no camera that had no handle in this
\* worker when the tick began is left with a stale manifest (older than
\* STALE_PLAYLIST_AGE) and no handle.
C38_NoStaleManifestLeft ==
  [][\A p \in Procs :
       (fn[p] = "stream_monitor_task" /\ pc[p] # "done" /\ pc'[p] = "done")
         => \A c \in Cameras :
              all_stats[p][c] = "absent"
                => ~(/\ playlistMtime'[c] # NoTime
                     /\ now' - playlistMtime'[c] > STALE_PLAYLIST_AGE
                     /\ ~HasHandle(WorkerOf(p), c)')]_vars

\* ---------------------------------------------------------- source URLs
\* A URL string "<scheme>://<rest>", rest being a sequence of characters.
\* urlparse(url): ASCII newlines are stripped; netloc runs up to the first
\* "/", "?" or "#"; the fragment follows the first "#", the query the first
\* "?"; for the schemes that use parameters the path ends at the first ";"
\* of its last segment; hostname is the netloc after its last "@" and
\* before the port's ":"; the scheme is lower-cased.
UrlParse(u) ==
  LET First(s, X) == LET I == {i \in 1..Len(s) : s[i] \in X}
                     IN IF I = {} THEN 0 ELSE CHOOSE i \in I : \A j \in I : i <= j
      Last(s, X) == LET I == {i \in 1..Len(s) : s[i] \in X}
                    IN IF I = {} THEN 0 ELSE CHOOSE i \in I : \A j \in I : i >= j
      Before(s, i) == IF i = 0 THEN s ELSE SubSeq(s, 1, i - 1)
      After(s, i) == IF i = 0 THEN <<>> ELSE SubSeq(s, i + 1, Len(s))
      Kept(ch) == ch # "\n"
      url == SelectSeq(u.rest, Kept)
      scheme == IF u.scheme = "RTSP" THEN "rtsp" ELSE u.scheme
      n == First(url, {"/", "?", "#"})
      netloc == Before(url, n)
      tail == IF n = 0 THEN <<>> ELSE SubSeq(url, n, Len(url))
      f == First(tail, {"#"})
      q == First(Before(tail, f), {"?"})
      fullpath == Before(Before(tail, f), q)
      semis == {i \in 1..Len(fullpath) : fullpath[i] = ";" /\ i > Last(fullpath, {"/"})}
      semi == IF scheme \in {"rtsp", "http", "https"} /\ semis # {}
                THEN CHOOSE i \in semis : \A j \in semis : i <= j
                ELSE 0
      at == Last(netloc, {"@"})
      hostinfo == SubSeq(netloc, at + 1, Len(netloc))
  IN [scheme |-> scheme,
      netloc |-> netloc,
      path |-> Before(fullpath, semi),
      params |-> After(fullpath, semi),
      query |-> After(Before(tail, f), q),
      fragment |-> After(tail, f),
      hostname |-> Before(hostinfo, First(hostinfo, {":"}))]

\* validate_rtsp_url(url): raises ValueError (ok = FALSE) or returns
\* clean_url, rebuilt from the parsed scheme, netloc, path and query.  The
\* character ` of dangerous_chars is written "backtick".
ValidateRtspUrl(u) ==
  LET parsed == UrlParse(u)
      url_base == parsed.netloc \o parsed.path
      Dangerous(s) == \E i \in 1..Len(s) :
                        s[i] \in {";", "|", "backtick", "$", "(", ")", "<", ">", "\n", "\r"}
  IN IF \/ parsed.scheme \notin {"rtsp", "rtmp", "http", "https"}
        \/ parsed.netloc = <<>>
        \/ Dangerous(url_base)
        \/ Dangerous(parsed.query)
       THEN [ok |-> FALSE, url |-> u]
       ELSE [ok |-> TRUE,
             url |-> [scheme |-> parsed.scheme,
                      rest |-> IF parsed.query # <<>>
                                 THEN url_base \o <<"?">> \o parsed.query
                                 ELSE url_base]]

\* capture_snapshot(camera_id, rtsp_url): rtsp_url = validate_rtsp_url(rtsp_url)
\* (return None on ValueError), then the command line [ffmpeg, ..., '-i',
\* rtsp_url, ...] is built and run.
CaptureSnapshot(p, c, u) ==
  LET validated == ValidateRtspUrl(u)
  IN /\ pc[p] = "idle"
     /\ fn' = [fn EXCEPT ![p] = "capture_snapshot"]
     /\ camera_id' = [camera_id EXCEPT ![p] = c]
     /\ rtsp_url' = [rtsp_url EXCEPT ![p] = validated.url]
     /\ IF validated.ok
          THEN /\ pc' = [pc EXCEPT ![p] = "snap_run"]
               /\ UNCHANGED ret
          ELSE /\ pc' = [pc EXCEPT ![p] = "done"]
               /\ ret' = [ret EXCEPT ![p] = "None"]
     /\ UNCHANGED <<now, store, lockVars, stack, process, preHandle, streamVars, viewerVars,
                    dispatchVars>>

\* subprocess.run(cmd, timeout=10) is over: the snapshot path, or None when
\* ffmpeg failed or timed out.
CaptureSnapshotRun(p) ==
  /\ pc[p] = "snap_run"
  /\ \E r \in {"snapshot", "None"} : ret' = [ret EXCEPT ![p] = r]
  /\ pc' = [pc EXCEPT ![p] = "done"]
  /\ UNCHANGED <<now, store, lockVars, fn, stack, streamLocals, streamVars, viewerVars,
                 dispatchVars>>

\* Snapshots of one camera for every URL of at most MaxUrlLen characters
\* after "://".
SpecSnapshot ==
  Init /\ [][
       \/ \E c \in ViewedCameras, s \in {"rtsp", "RTSP", "rtmp", "file"}, n \in 0..MaxUrlLen : \E r \in [1..n -> {"h", ":", "@", "/", ";", "?", "#", "$", "\n"}] : CaptureSnapshot(<<1, 2>>, c, [scheme |-> s, rest |-> r])
       \/ \E p \in Procs : CaptureSnapshotRun(p)
       \/ \E p \in Procs : Return(p)
          ]_vars

\* C39: the source URL on the command line of a running snapshot capture
\* has a scheme in {rtsp, rtmp, http, https}, a non-empty host, and none of
\* the characters ; | ` $ ( ) < > newline, carriage return.
C39_CommandLineUrlSafe ==
  \A p \in Procs :
    (fn[p] = "capture_snapshot" /\ pc[p] = "snap_run")
      => /\ rtsp_url[p].scheme \in {"rtsp", "rtmp", "http", "https"}
         /\ UrlParse(rtsp_url[p]).hostname # <<>>
         /\ \A i \in 1..Len(rtsp_url[p].rest) :
              rtsp_url[p].rest[i] \notin {";", "|", "backtick", "$", "(", ")", "<", ">", "\n", "\r"}

====
